---- MODULE Spec2Model ----
(***************************************************************************)
(* Model of the temperature-analysis question answering of the Joto        *)
(* dashboard (src/pages/1_Temperature_Analysis.py): the statistics of the  *)
(* land-surface-temperature grid, the rule-based responder, the quality    *)
(* validator, the usage counters and the orchestrator create_ai_response;  *)
(* and of the Community Voting page (src/pages/4_Community_Voting.py):     *)
(* the upload of development plans, their listing and the votes.           *)
(*                                                                         *)
(* Representation.                                                         *)
(*  - A Python str that the code inspects (a question, the text the API    *)
(*    returns, an exception message) is a sequence of one-character        *)
(*    strings, so that lower(), strip(), split() and the substring test    *)
(*    `in` are computed character by character.                            *)
(*  - A Python str that the code only builds (an answer) is a TLA+ string, *)
(*    built with \o as the f-strings build it.  Characters beyond U+00FF   *)
(*    cannot occur in a TLA+ string: emoji are left out and a bullet is    *)
(*    written "*".                                                         *)
(*  - A temperature is an integer number of 1/Scale degrees Celsius, which *)
(*    makes the mean and every interpolated percentile of a grid of whole  *)
(*    degrees exact.                                                       *)
(*  - A dict is a function from its keys (<<>> when it has none); a list   *)
(*    is a sequence.                                                       *)
(*  - The outcome of a call is a record [tag, val]: tag "str" with the     *)
(*    returned string, tag "None" when the function falls off its end, and *)
(*    tag "raise" with the name of the exception that leaves the function. *)
(***************************************************************************)
EXTENDS Integers, Sequences, FiniteSets, TLC

VARIABLES
    env,              \* os.environ: which of the four AZURE_OPENAI_* values are set
    client_cache,     \* st.cache_resource of get_cached_azure_client
    data,             \* the grid load_lst_data returned (NoData for None)
    stats,            \* compute_lst_statistics(data), kept by the page
    api_usage_stats,  \* st.session_state.api_usage_stats (<<>>: the key is not there)
    replaced_stats,   \* the dicts that were in st.session_state.api_usage_stats and
                      \* that a running log_api_request call still holds
    queries,          \* number of questions asked so far in the session
    last,             \* what the last create_ai_response call did and returned
    pending,          \* the create_ai_response call that is running (<<>>: none):
                      \* its arguments, the client it got, where it is and what
                      \* the API answered
    checked_text,    \* argument of a direct validate_response_quality call
    validation,       \* its result
    fb_question,      \* arguments of a direct create_fallback_response call
    fb_called,        \* whether that call was made
    fb_result,        \* its outcome
    call,             \* a direct call of one of the other functions: its name,
                      \* its arguments and, once made, its outcome
    log_threads,      \* the log_api_request calls running concurrently
    development_plans, \* st.session_state.development_plans (Community Voting page)
    uploaded_files,   \* st.session_state.uploaded_files: plan id -> saved files
    vote_history,     \* st.session_state.vote_history: plan id -> votes cast
    uploads_dir,      \* the paths of the files in the directory uploads/
    now               \* datetime.now(), as a count of the operations so far

vars == <<env, client_cache, data, stats, api_usage_stats, replaced_stats, queries,
          last, pending,
          checked_text, validation, fb_question, fb_called, fb_result,
          call, log_threads,
          development_plans, uploaded_files, vote_history, uploads_dir, now>>

\* initialize_community_data: no plans, no files, no votes (and, before the
\* first upload, an empty uploads directory)
initialize_community_data ==
    /\ development_plans = <<>>
    /\ uploaded_files = <<>>
    /\ vote_history = <<>>
    /\ uploads_dir = {}
    /\ now = 0

(***************************************************************************)
(* Bounds of the model.                                                    *)
(***************************************************************************)
\* Most fragments concatenated into a text given to validate_response_quality.
MaxFrags == 2
\* Most words of a question given directly to create_fallback_response.
MaxWords == 2
\* Most questions asked in one session.
MaxQueries == 2

(***************************************************************************)
(* Python str operations on character sequences.                           *)
(***************************************************************************)
\* The capital letters str.lower() changes and, at the same places, what it
\* makes of them: A-Z and the 30 capital letters of Latin-1.  (A text of the
\* model has characters up to U+00FF only.)
UpperChars == <<"A", "B", "C", "D", "E", "F", "G", "H", "I", "J", "K", "L",
                "M", "N", "O", "P", "Q", "R", "S", "T", "U", "V", "W", "X",
                "Y", "Z", "À", "Á", "Â", "Ã", "Ä", "Å", "Æ", "Ç", "È", "É",
                "Ê", "Ë", "Ì", "Í", "Î", "Ï", "Ð", "Ñ", "Ò", "Ó", "Ô", "Õ",
                "Ö", "Ø", "Ù", "Ú", "Û", "Ü", "Ý", "Þ">>
LowerChars == <<"a", "b", "c", "d", "e", "f", "g", "h", "i", "j", "k", "l",
                "m", "n", "o", "p", "q", "r", "s", "t", "u", "v", "w", "x",
                "y", "z", "à", "á", "â", "ã", "ä", "å", "æ", "ç", "è", "é",
                "ê", "ë", "ì", "í", "î", "ï", "ð", "ñ", "ò", "ó", "ô", "õ",
                "ö", "ø", "ù", "ú", "û", "ü", "ý", "þ">>
\* The characters str.strip() and str.split() treat as white space: the
\* blank, tab, line feed, vertical tab, form feed, carriage return, the
\* separators U+001C to U+001F, next line U+0085 and the no-break space
\* U+00A0.
Whitespace == {" ", "\t", "\n", "\r", "\f", "", "", "", "", "", "", " "}

\* The value standing for Python's None where a text is expected.
NoneStr == <<"None">>

\* str.lower() of one character.
lower_char(c) ==
    IF \E i \in DOMAIN UpperChars : UpperChars[i] = c
    THEN LowerChars[CHOOSE i \in DOMAIN UpperChars : UpperChars[i] = c]
    ELSE c

\* str.lower()
str_lower(s) == [i \in 1..Len(s) |-> lower_char(s[i])]

\* str.strip(): the text without its leading and trailing white space.
str_strip(s) ==
    LET keep == {i \in 1..Len(s) : s[i] \notin Whitespace}
    IN  IF keep = {} THEN <<>>
        ELSE LET lo == CHOOSE i \in keep : \A j \in keep : i <= j
                 hi == CHOOSE i \in keep : \A j \in keep : j <= i
             IN  SubSeq(s, lo, hi)

\* len(str.split()): the number of maximal runs of non-white-space characters.
split_count(s) ==
    Cardinality({i \in 1..Len(s) :
                    /\ s[i] \notin Whitespace
                    /\ (i = 1 \/ s[i - 1] \in Whitespace)})

\* `sub in s`
str_contains(s, sub) ==
    \E i \in 1..(Len(s) - Len(sub) + 1) : \A j \in 1..Len(sub) : s[i + j - 1] = sub[j]

\* any(word in s for word in words)
any_in(words, s) == \E w \in words : str_contains(s, w)

\* The TLA+ string made of the characters of s.
RECURSIVE to_string(_)
to_string(s) == IF s = <<>> THEN "" ELSE Head(s) \o to_string(Tail(s))

(***************************************************************************)
(* validate_response_quality                                               *)
(***************************************************************************)
MinResponseChars == 10
MinResponseWords == 5

\* The list error_indicators, in its order.
error_indicators ==
    <<
        <<"i", " ", "d", "o", "n", "'", "t", " ", "h", "a", "v", "e", " ", "a", "c", "c", "e", "s", "s">>,
        <<"i", " ", "c", "a", "n", "n", "o", "t", " ", "a", "c", "c", "e", "s", "s">>,
        <<"i", "'", "m", " ", "u", "n", "a", "b", "l", "e", " ", "t", "o">>,
        <<"e", "r", "r", "o", "r", " ", "o", "c", "c", "u", "r", "r", "e", "d">>,
        <<"s", "o", "m", "e", "t", "h", "i", "n", "g", " ", "w", "e", "n", "t", " ", "w", "r", "o", "n", "g">>>>

\* `not response_text`: None and the empty string are falsy.
is_falsy_text(response_text) == response_text = NoneStr \/ response_text = <<>>

\* A wrong variant: the length test made without strip().
validate_response_quality_nostrip(response_text) ==
    IF is_falsy_text(response_text) \/ Len(response_text) < MinResponseChars
    THEN [is_valid |-> FALSE, message |-> "Response too short or empty"]
    ELSE LET response_lower == str_lower(response_text)
             hits == {k \in DOMAIN error_indicators :
                         str_contains(response_lower, error_indicators[k])}
         IN  IF hits # {}
             THEN LET first == CHOOSE k \in hits : \A j \in hits : k <= j
                  IN  [is_valid |-> FALSE,
                       message |-> "Response contains error indicator: "
                                   \o to_string(error_indicators[first])]
             ELSE IF split_count(response_text) < MinResponseWords
             THEN [is_valid |-> FALSE, message |-> "Response lacks sufficient detail"]
             ELSE [is_valid |-> TRUE, message |-> "Response quality acceptable"]

\* The pair (is_valid, message) the function returns.
validate_response_quality(response_text) ==
    IF is_falsy_text(response_text)
       \/ Len(str_strip(response_text)) < MinResponseChars
    THEN [is_valid |-> FALSE, message |-> "Response too short or empty"]
    ELSE LET response_lower == str_lower(response_text)
             hits == {k \in DOMAIN error_indicators :
                         str_contains(response_lower, error_indicators[k])}
         IN  IF hits # {}
             THEN LET first == CHOOSE k \in hits : \A j \in hits : k <= j
                  IN  [is_valid |-> FALSE,
                       message |-> "Response contains error indicator: "
                                   \o to_string(error_indicators[first])]
             ELSE IF split_count(response_text) < MinResponseWords
             THEN [is_valid |-> FALSE, message |-> "Response lacks sufficient detail"]
             ELSE [is_valid |-> TRUE, message |-> "Response quality acceptable"]

(***************************************************************************)
(* Numbers.  A temperature is an integer count of 1/Scale degrees; Scale   *)
(* is a multiple of 20, so every percentile the code takes of whole-       *)
(* degree pixels (10, 25, 50, 75, 90, 95) is an integer.  The mean is kept *)
(* as the quotient sum/count, and the standard deviation as a square root  *)
(* over the count; the floats the code holds are the doubles nearest to    *)
(* them (see "Floats" below).                                              *)
(***************************************************************************)
Scale == 8 * 9 * 5 * 7

\* A pixel of the grid: NaN, or a whole number of degrees.
NaN == [nan |-> TRUE, v |-> 0]
Px(v) == [nan |-> FALSE, v |-> v]
\* np.isnan
isnan(p) == p.nan

\* The grid load_lst_data returns: None, or the pixels (flattened row by row,
\* as boolean-mask indexing flattens them).
NoData == [loaded |-> FALSE, pixels |-> <<>>]
Grid(pixels) == [loaded |-> TRUE, pixels |-> pixels]

\* data[~np.isnan(data)]: the values of the valid pixels, in grid order.
RECURSIVE valid_values(_)
valid_values(pixels) ==
    IF pixels = <<>> THEN <<>>
    ELSE IF isnan(Head(pixels)) THEN valid_values(Tail(pixels))
    ELSE <<Head(pixels).v>> \o valid_values(Tail(pixels))

RECURSIVE seq_sum(_)
seq_sum(s) == IF s = <<>> THEN 0 ELSE Head(s) + seq_sum(Tail(s))

seq_min(s) == CHOOSE x \in {s[i] : i \in DOMAIN s} : \A i \in DOMAIN s : x <= s[i]
seq_max(s) == CHOOSE x \in {s[i] : i \in DOMAIN s} : \A i \in DOMAIN s : s[i] <= x

\* The values in ascending order (np.percentile sorts, or partitions, first).
RECURSIVE sorted(_)
sorted(s) ==
    LET RECURSIVE insert_sorted(_, _)
        insert_sorted(x, t) ==
            IF t = <<>> THEN <<x>>
            ELSE IF x <= Head(t) THEN <<x>> \o t
            ELSE <<Head(t)>> \o insert_sorted(x, Tail(t))
    IN  IF s = <<>> THEN <<>> ELSE insert_sorted(Head(s), sorted(Tail(s)))

\* np.percentile with method="lower": the closest rank below the virtual
\* index, without interpolation
np_percentile_lower(valid, q) ==
    LET a == sorted(valid)
        lo == ((Len(a) - 1) * q) \div 100
    IN  Scale * a[lo + 1]

\* np.percentile(valid, q), default method: linear interpolation between the
\* closest ranks.  The virtual index is (n-1)*q/100; the result is in 1/Scale
\* degrees.
np_percentile(valid, q) ==
    LET a == sorted(valid)
        n == Len(a)
        pos == (n - 1) * q
        lo == pos \div 100
        rem == pos % 100
    IN  IF rem = 0 THEN Scale * a[lo + 1]
        ELSE Scale * a[lo + 1] + ((a[lo + 2] - a[lo + 1]) * rem * Scale) \div 100

\* n^2 times the population variance of the values: n*sum(x^2) - sum(x)^2.
\* np.std(valid) is its square root divided by n.
variance_numerator(valid) ==
    Len(valid) * seq_sum([i \in DOMAIN valid |-> valid[i] * valid[i]])
        - seq_sum(valid) * seq_sum(valid)

\* The dict compute_lst_statistics returns when it has no data.
EmptyStats == <<>>
\* `not stats`
not_stats(s) == DOMAIN s = {}

\* compute_lst_statistics with the pixels at the 90th and at the 10th
\* percentile counted as hot and as cold (>= and <= for > and <)
compute_lst_statistics_inclusive(d) ==
    IF ~d.loaded THEN EmptyStats
    ELSE LET valid_data == valid_values(d.pixels)
             n == Len(valid_data)
         IN  IF n = 0 THEN EmptyStats
             ELSE [min_temp      |-> Scale * seq_min(valid_data),
                   max_temp      |-> Scale * seq_max(valid_data),
                   mean_temp     |-> [num |-> seq_sum(valid_data), den |-> n],
                   median_temp   |-> np_percentile(valid_data, 50),
                   std_temp      |-> [rad |-> variance_numerator(valid_data), den |-> n],
                   temp_range    |-> Scale * (seq_max(valid_data) - seq_min(valid_data)),
                   percentile_25 |-> np_percentile(valid_data, 25),
                   percentile_75 |-> np_percentile(valid_data, 75),
                   hot_pixels    |-> Cardinality({i \in DOMAIN valid_data :
                                        Scale * valid_data[i] >= np_percentile(valid_data, 90)}),
                   cold_pixels   |-> Cardinality({i \in DOMAIN valid_data :
                                        Scale * valid_data[i] <= np_percentile(valid_data, 10)}),
                   total_pixels  |-> n]

\* compute_lst_statistics.  Temperatures are in 1/Scale degrees, but
\* mean_temp is the pair (num, den) standing for num/den degrees (np.mean
\* divides the sum of the values by their count) and std_temp the pair
\* (rad, den) standing for sqrt(rad)/den degrees.
compute_lst_statistics(d) ==
    IF ~d.loaded THEN EmptyStats
    ELSE LET valid_data == valid_values(d.pixels)
             n == Len(valid_data)
         IN  IF n = 0 THEN EmptyStats
             ELSE [min_temp      |-> Scale * seq_min(valid_data),
                   max_temp      |-> Scale * seq_max(valid_data),
                   mean_temp     |-> [num |-> seq_sum(valid_data), den |-> n],
                   median_temp   |-> np_percentile(valid_data, 50),
                   std_temp      |-> [rad |-> variance_numerator(valid_data), den |-> n],
                   temp_range    |-> Scale * (seq_max(valid_data) - seq_min(valid_data)),
                   percentile_25 |-> np_percentile(valid_data, 25),
                   percentile_75 |-> np_percentile(valid_data, 75),
                   hot_pixels    |-> Cardinality({i \in DOMAIN valid_data :
                                        Scale * valid_data[i] > np_percentile(valid_data, 90)}),
                   cold_pixels   |-> Cardinality({i \in DOMAIN valid_data :
                                        Scale * valid_data[i] < np_percentile(valid_data, 10)}),
                   total_pixels  |-> n]

\* std > k degrees, for a whole k >= 0
std_gt(std, k) == std.rad > k * k * std.den * std.den

(***************************************************************************)
(* Floats.  The statistics are Python floats (IEEE-754 doubles): a         *)
(* quotient the code computes is the double nearest to the exact quotient  *)
(* (ties to the even significand), and formatting rounds the exact value   *)
(* of that double, so 0.025 (held slightly above) prints as 0.03 and       *)
(* 20.075 (held slightly below) as 20.07.  Significands exceed the model   *)
(* checker's integers, so a large natural number is kept as the sequence   *)
(* of its digits in base 2048 (11 binary digits each), lowest first, and a *)
(* double as [m, e], standing for m * 2^e with m such a sequence of at     *)
(* most 53 binary digits.  All values here are >= 0, and the numerators    *)
(* and denominators of quotients are below 2^20.                           *)
(***************************************************************************)
\* The base-2048 digits of the natural number n, lowest first.
RECURSIVE digits_of(_)
digits_of(n) == IF n = 0 THEN <<>> ELSE <<n % 2048>> \o digits_of(n \div 2048)

\* The digits without zeros at the high end.
RECURSIVE digits_trim(_)
digits_trim(x) ==
    IF x = <<>> \/ x[Len(x)] # 0 THEN x ELSE digits_trim(SubSeq(x, 1, Len(x) - 1))

\* x * k + carry, for naturals k and carry below 2^20
RECURSIVE digits_times(_, _, _)
digits_times(x, k, carry) ==
    IF x = <<>> THEN digits_of(carry)
    ELSE LET v == Head(x) * k + carry
         IN  <<v % 2048>> \o digits_times(Tail(x), k, v \div 2048)

\* x * 2^n
digits_shift(x, n) == [i \in 1..(n \div 11) |-> 0] \o digits_times(x, 2 ^ (n % 11), 0)

\* x - y - borrow, for x >= y + borrow
RECURSIVE digits_minus(_, _, _)
digits_minus(x, y, borrow) ==
    IF x = <<>> THEN <<>>
    ELSE LET v == Head(x) - (IF y = <<>> THEN 0 ELSE Head(y)) - borrow
         IN  <<v % 2048>> \o digits_minus(Tail(x), IF y = <<>> THEN <<>> ELSE Tail(y),
                                          IF v < 0 THEN 1 ELSE 0)

\* x divided by the natural d, 0 < d < 2^20: the quotient q and the remainder r
\* (long division, from the highest digit down)
RECURSIVE digits_div(_, _)
digits_div(x, d) ==
    IF x = <<>> THEN [q |-> <<>>, r |-> 0]
    ELSE CHOOSE result \in
             {[q |-> <<(2048 * high.r + Head(x)) \div d>> \o high.q,
               r |-> (2048 * high.r + Head(x)) % d] :
                  high \in {digits_div(Tail(x), d)}} : TRUE

\* The double nearest to x * 2^e (plus a fraction of 2^e when sticky), ties
\* to the even significand: of the binary digits of x the highest 53 are
\* kept; the first digit dropped decides, and when it is 1 and nothing else
\* was dropped, the lowest digit kept.
round_to_double(x, e, sticky) ==
    LET \* the number of binary digits of a
        length(a) ==
            IF a = <<>> THEN 0
            ELSE 11 * (Len(a) - 1)
                 + (CHOOSE k \in 1..11 : 2 ^ (k - 1) <= a[Len(a)] /\ a[Len(a)] < 2 ^ k)
        rounded(kept, first_dropped, rest, drop) ==
            [m |-> IF first_dropped = 1 /\ (rest \/ Head(kept) % 2 = 1)
                   THEN digits_times(kept, 1, 1) ELSE kept,
             e |-> e + drop]
        \* from_first == a \div 2^(drop - 1), after `whole` digits of a
        halved(a, whole, from_first, drop) ==
            rounded(digits_trim(digits_div(from_first.q, 2).q), Head(from_first.q) % 2,
                    sticky \/ from_first.r # 0 \/ \E i \in 1..whole : a[i] # 0, drop)
        cut(a, drop) ==
            IF drop <= 0 THEN [m |-> a, e |-> e]
            ELSE halved(a, (drop - 1) \div 11,
                        digits_div(SubSeq(a, (drop - 1) \div 11 + 1, Len(a)),
                                   2 ^ ((drop - 1) % 11)),
                        drop)
        measured(a) == cut(a, length(a) - 53)
    IN  measured(digits_trim(x))

\* num / den as the code computes it: the double nearest to the quotient
\* (num * 2^77 / den has more than 53 binary digits).
double_of_ratio(num, den) ==
    LET rounded(d) == round_to_double(d.q, -77, d.r # 0)
    IN  rounded(digits_div(digits_shift(digits_of(num), 77), den))

\* f - g for doubles f >= g
double_minus(f, g) ==
    LET e == IF f.e < g.e THEN f.e ELSE g.e
    IN  round_to_double(digits_minus(digits_shift(f.m, f.e - e),
                                     digits_shift(g.m, g.e - e), 0), e, FALSE)

\* The sign of f - num/den for a double f: -1, 0 or 1 (f * den against num)
double_cmp(f, num, den) ==
    LET sign(a, b) ==
            IF a = b THEN 0
            ELSE IF Len(a) # Len(b) THEN (IF Len(a) > Len(b) THEN 1 ELSE -1)
            ELSE IF \E i \in 1..Len(a) :
                        a[i] > b[i] /\ \A j \in (i + 1)..Len(a) : a[j] = b[j]
                 THEN 1 ELSE -1
    IN  sign(digits_trim(digits_shift(digits_times(f.m, den, 0), IF f.e > 0 THEN f.e ELSE 0)),
             digits_trim(digits_shift(digits_of(num), IF f.e < 0 THEN 0 - f.e ELSE 0)))

(***************************************************************************)
(* Number formatting.                                                      *)
(***************************************************************************)
\* num/den rounded to the nearest integer, ties to even.  num >= 0, den > 0.
round_half_even(num, den) ==
    LET q == num \div den
        r == num % den
    IN  IF 2 * r < den THEN q
        ELSE IF 2 * r > den THEN q + 1
        ELSE IF q % 2 = 0 THEN q ELSE q + 1

\* What a format with 1 or 2 decimals (unit = 10 or 100) keeps of the double
\* f, as a count of 1/unit; num/den is the exact value f stands for.  The
\* format rounds the value of f itself: f and num/den round alike unless num/den
\* lies half-way between two results, and then f, which is at most a few
\* units in the last place away, decides: above the half-way point it goes
\* up, below it down, and on it to the even result.
round_double(unit, num, den, f) ==
    LET q == unit * (num \div den) + (unit * (num % den)) \div den
        r == (unit * (num % den)) % den
        decided(side) == IF side > 0 THEN q + 1
                         ELSE IF side < 0 THEN q
                         ELSE IF q % 2 = 0 THEN q ELSE q + 1
    IN  IF 2 * r < den THEN q
        ELSE IF 2 * r > den THEN q + 1
        ELSE decided(double_cmp(f, 2 * q + 1, 2 * unit))

\* f"{n:,}": the integer with a comma between groups of three digits.
RECURSIVE fmt_commas(_)
fmt_commas(n) ==
    IF n < 1000 THEN ToString(n)
    ELSE LET g == n % 1000
         IN  fmt_commas(n \div 1000) \o ","
             \o (IF g < 10 THEN "00" ELSE IF g < 100 THEN "0" ELSE "") \o ToString(g)

\* The decimal text of h hundredths: f"{h/100:.2f}"
text_2f(h) ==
    ToString(h \div 100) \o "." \o (IF h % 100 < 10 THEN "0" ELSE "") \o ToString(h % 100)
\* The decimal text of t tenths
text_1f(t) == ToString(t \div 10) \o "." \o ToString(t % 10)

\* f"{x:.2f}" and f"{x:.1f}" of a float x >= 0, the double nearest to num/den
fmt_2f(num, den) == text_2f(round_double(100, num, den, double_of_ratio(num, den)))
fmt_1f(num, den) == text_1f(round_double(10, num, den, double_of_ratio(num, den)))

\* The largest integer whose square is at most x, by bisection.
floor_sqrt(x) ==
    LET RECURSIVE sqrt_bisect(_, _)
        sqrt_bisect(lo, hi) ==
            IF lo = hi THEN lo
            ELSE LET mid == (lo + hi + 1) \div 2
                 IN  IF mid * mid <= x THEN sqrt_bisect(mid, hi)
                                       ELSE sqrt_bisect(lo, mid - 1)
    IN  sqrt_bisect(0, 46340)

\* f"{std:.2f}" of a standard deviation sqrt(rad)/den.  np.std is taken to
\* return the double nearest to the exact deviation.  When rad is a square
\* the deviation is the quotient sqrt(rad)/den and is formatted as one.
\* Otherwise it is irrational, so never half-way between two results and
\* farther from every half-way point than the float is from it, and the
\* result is floor(100 * sqrt(rad)/den + 1/2) hundredths.
fmt_std_2f(std) ==
    LET formatted(s) ==
            IF s * s = std.rad THEN fmt_2f(s, std.den)
            ELSE text_2f((floor_sqrt(40000 * std.rad) + std.den) \div (2 * std.den))
    IN  formatted(floor_sqrt(std.rad))

\* f"{(part / total * 100):.1f}": the quotient is rounded to a double, and so
\* is its product with 100
fmt_pct_1f(part, total) ==
    LET times_100(quotient) ==
            round_to_double(digits_times(quotient.m, 100, 0), quotient.e, FALSE)
    IN  text_1f(round_double(10, 100 * part, total,
                             times_100(double_of_ratio(part, total))))

(***************************************************************************)
(* The environmental context: prepare_context_data and what it calls.      *)
(***************************************************************************)
Returned(v) == [tag |-> "value", val |-> v]
Raised(e) == [tag |-> "raise", val |-> e]

\* calculate_skewness.  std == 0 returns the int 0 before any division; the
\* factor n / ((n-1) * (n-2)) is a division of Python ints, which raises
\* ZeroDivisionError when n is 1 or 2.  The value computed otherwise is not
\* represented ("computed").
calculate_skewness(valid) ==
    LET n == Len(valid)
    IN  IF variance_numerator(valid) = 0 THEN Returned("0")
        ELSE IF (n - 1) * (n - 2) = 0 THEN Raised("ZeroDivisionError")
        ELSE Returned("computed")

\* calculate_kurtosis.  std == 0 returns 3; the factors divide Python ints by
\* (n-1)*(n-2)*(n-3) and by (n-2)*(n-3).
calculate_kurtosis(valid) ==
    LET n == Len(valid)
    IN  IF variance_numerator(valid) = 0 THEN Returned("3")
        ELSE IF (n - 1) * (n - 2) * (n - 3) = 0 \/ (n - 2) * (n - 3) = 0
        THEN Raised("ZeroDivisionError")
        ELSE Returned("computed")

\* analyze_spatial_distribution: skewness first, then kurtosis; an exception
\* of either leaves the function.
analyze_spatial_distribution(valid) ==
    LET skewness == calculate_skewness(valid)
        kurtosis == calculate_kurtosis(valid)
    IN  IF skewness.tag = "raise" THEN skewness
        ELSE IF kurtosis.tag = "raise" THEN kurtosis
        ELSE [tag |-> "value",
              val |-> [skewness_value |-> skewness.val,
                       kurtosis_value |-> kurtosis.val]]

\* classify_heat_levels
classify_heat_levels(s, valid) ==
    LET extreme_hot == np_percentile(valid, 95)
        very_hot == np_percentile(valid, 90)
        hot == np_percentile(valid, 75)
        cool == np_percentile(valid, 25)
        very_cool == np_percentile(valid, 10)
    IN  [extreme_hot_threshold |-> fmt_2f(extreme_hot, Scale) \o "°C",
         very_hot_threshold    |-> fmt_2f(very_hot, Scale) \o "°C",
         hot_threshold         |-> fmt_2f(hot, Scale) \o "°C",
         moderate_range        |-> fmt_2f(cool, Scale) \o "°C - " \o fmt_2f(hot, Scale) \o "°C",
         cool_threshold        |-> fmt_2f(cool, Scale) \o "°C",
         very_cool_threshold   |-> fmt_2f(very_cool, Scale) \o "°C"]

\* calculate_thermal_comfort with the Optimal interval open at 24
calculate_thermal_comfort_open_24(mean_temp) ==
    IF 18 * mean_temp.den <= mean_temp.num /\ mean_temp.num < 24 * mean_temp.den THEN "Optimal Comfort"
    ELSE IF \/ (15 * mean_temp.den <= mean_temp.num /\ mean_temp.num < 18 * mean_temp.den)
            \/ (24 * mean_temp.den < mean_temp.num /\ mean_temp.num <= 27 * mean_temp.den)
    THEN "Acceptable Comfort"
    ELSE IF \/ (12 * mean_temp.den <= mean_temp.num /\ mean_temp.num < 15 * mean_temp.den)
            \/ (27 * mean_temp.den < mean_temp.num /\ mean_temp.num <= 30 * mean_temp.den)
    THEN "Slight Discomfort"
    ELSE IF mean_temp.num < 12 * mean_temp.den \/ mean_temp.num > 30 * mean_temp.den
    THEN "Significant Discomfort"
    ELSE "Unknown"

\* calculate_thermal_comfort, of a mean temperature of num/den degrees (the
\* float nearest to it is on the same side of a whole number)
calculate_thermal_comfort(mean_temp) ==
    IF 18 * mean_temp.den <= mean_temp.num /\ mean_temp.num <= 24 * mean_temp.den THEN "Optimal Comfort"
    ELSE IF \/ (15 * mean_temp.den <= mean_temp.num /\ mean_temp.num < 18 * mean_temp.den)
            \/ (24 * mean_temp.den < mean_temp.num /\ mean_temp.num <= 27 * mean_temp.den)
    THEN "Acceptable Comfort"
    ELSE IF \/ (12 * mean_temp.den <= mean_temp.num /\ mean_temp.num < 15 * mean_temp.den)
            \/ (27 * mean_temp.den < mean_temp.num /\ mean_temp.num <= 30 * mean_temp.den)
    THEN "Slight Discomfort"
    ELSE IF mean_temp.num < 12 * mean_temp.den \/ mean_temp.num > 30 * mean_temp.den
    THEN "Significant Discomfort"
    ELSE "Unknown"

\* The number risk_factors that assess_environmental_risk accumulates
risk_factors(s) ==
      (IF s.max_temp > 40 * Scale THEN 3
       ELSE IF s.max_temp > 35 * Scale THEN 2
       ELSE IF s.max_temp > 30 * Scale THEN 1 ELSE 0)
    + (IF std_gt(s.std_temp, 5) THEN 2
       ELSE IF std_gt(s.std_temp, 3) THEN 1 ELSE 0)
    + (IF s.temp_range > 15 * Scale THEN 2
       ELSE IF s.temp_range > 10 * Scale THEN 1 ELSE 0)

\* assess_environmental_risk with High Risk only above 5 factors
assess_environmental_risk_above_5(s) ==
    IF risk_factors(s) > 5 THEN "High Risk"
    ELSE IF risk_factors(s) >= 3 THEN "Moderate Risk"
    ELSE IF risk_factors(s) >= 1 THEN "Low Risk"
    ELSE "Minimal Risk"

\* assess_environmental_risk
assess_environmental_risk(s) ==
    IF risk_factors(s) >= 5 THEN "High Risk"
    ELSE IF risk_factors(s) >= 3 THEN "Moderate Risk"
    ELSE IF risk_factors(s) >= 1 THEN "Low Risk"
    ELSE "Minimal Risk"

\* calculate_climate_indicators
calculate_climate_indicators(s) ==
    LET uhi_intensity == s.max_temp - s.min_temp
        uhi_level ==
            IF uhi_intensity > 10 * Scale THEN "Very Strong"
            ELSE IF uhi_intensity > 7 * Scale THEN "Strong"
            ELSE IF uhi_intensity > 5 * Scale THEN "Moderate"
            ELSE IF uhi_intensity > 3 * Scale THEN "Weak"
            ELSE "Very Weak"
        stress_level ==
            IF s.mean_temp.num > 35 * s.mean_temp.den THEN "Extreme Heat Stress"
            ELSE IF s.mean_temp.num > 30 * s.mean_temp.den THEN "High Heat Stress"
            ELSE IF s.mean_temp.num > 25 * s.mean_temp.den THEN "Moderate Heat Stress"
            ELSE IF s.mean_temp.num > 20 * s.mean_temp.den THEN "Low Heat Stress"
            ELSE "No Heat Stress"
    IN  [uhi_intensity            |-> fmt_2f(uhi_intensity, Scale) \o "°C",
         uhi_level                |-> uhi_level,
         temperature_stress_level |-> stress_level,
         thermal_comfort_index    |-> calculate_thermal_comfort(s.mean_temp),
         environmental_risk_level |-> assess_environmental_risk(s)]

\* The outcome of prepare_context_data called at time t: None, the context
\* dict, or the exception of analyze_spatial_distribution.  Of the display
\* strings under "statistics" the model keeps those built from exact values
\* (temperature_variability_index, a ratio of the standard deviation, is left
\* out); they only go into the prompt.
prepare_context_data(s, d, t) ==
    IF not_stats(s) \/ ~d.loaded THEN [tag |-> "None"]
    ELSE LET valid_data == valid_values(d.pixels)
         IN  IF Len(valid_data) = 0 THEN [tag |-> "None"]
             ELSE LET percentile_90 == np_percentile(valid_data, 90)
                      percentile_10 == np_percentile(valid_data, 10)
                      mean == s.mean_temp
                      heat_island_intensity ==
                          double_minus(double_of_ratio(s.max_temp, Scale),
                                       double_of_ratio(mean.num, mean.den))
                      spatial == analyze_spatial_distribution(valid_data)
                  IN  IF spatial.tag = "raise" THEN spatial
                      ELSE [tag |-> "dict",
                            location |-> "Kilimani area, Nairobi, Kenya",
                            data_type |-> "Land Surface Temperature (LST) from satellite imagery",
                            analysis_timestamp |-> t,
                            statistics |->
                              [min_temperature    |-> fmt_2f(s.min_temp, Scale) \o "°C",
                               max_temperature    |-> fmt_2f(s.max_temp, Scale) \o "°C",
                               mean_temperature   |-> fmt_2f(mean.num, mean.den) \o "°C",
                               median_temperature |-> fmt_2f(s.median_temp, Scale) \o "°C",
                               temperature_range  |-> fmt_2f(s.temp_range, Scale) \o "°C",
                               standard_deviation |-> fmt_std_2f(s.std_temp) \o "°C",
                               percentile_25      |-> fmt_2f(s.percentile_25, Scale) \o "°C",
                               percentile_75      |-> fmt_2f(s.percentile_75, Scale) \o "°C",
                               percentile_90      |-> fmt_2f(percentile_90, Scale) \o "°C",
                               percentile_10      |-> fmt_2f(percentile_10, Scale) \o "°C",
                               hot_pixels_count   |-> fmt_commas(s.hot_pixels),
                               cold_pixels_count  |-> fmt_commas(s.cold_pixels),
                               hot_pixels_percentage  |-> fmt_pct_1f(s.hot_pixels, s.total_pixels) \o "%",
                               cold_pixels_percentage |-> fmt_pct_1f(s.cold_pixels, s.total_pixels) \o "%",
                               total_pixels       |-> fmt_commas(s.total_pixels),
                               heat_island_intensity |->
                                   text_2f(round_double(100,
                                               s.max_temp * mean.den - Scale * mean.num,
                                               Scale * mean.den,
                                               heat_island_intensity)) \o "°C"],
                            environmental_insights |->
                              [heat_classification |-> classify_heat_levels(s, valid_data),
                               spatial_distribution |-> spatial.val,
                               climate_indicators |-> calculate_climate_indicators(s)]]

(***************************************************************************)
(* The rule-based responder: create_fallback_response.                     *)
(***************************************************************************)
Str(s) == [tag |-> "str", val |-> s]
\* A function that ends without a return statement returns None.
ReturnsNone == [tag |-> "None", val |-> ""]

\* The keyword lists of the branches
temperature_words == {<<"t", "e", "m", "p", "e", "r", "a", "t", "u", "r", "e">>,
    <<"t", "e", "m", "p">>, <<"h", "o", "t">>, <<"c", "o", "l", "d">>, <<"w", "a", "r", "m">>}
heat_island_words == {<<"h", "e", "a", "t", " ", "i", "s", "l", "a", "n", "d">>,
    <<"u", "r", "b", "a", "n", " ", "h", "e", "a", "t">>,
    <<"h", "o", "t", " ", "s", "p", "o", "t", "s">>, <<"h", "o", "t", "s", "p", "o", "t", "s">>}
statistics_words == {<<"s", "t", "a", "t", "i", "s", "t", "i", "c", "s">>,
    <<"s", "t", "a", "t", "s">>, <<"d", "i", "s", "t", "r", "i", "b", "u", "t", "i", "o", "n">>}
area_words == {<<"a", "r", "e", "a">>, <<"l", "o", "c", "a", "t", "i", "o", "n">>,
    <<"w", "h", "e", "r", "e">>, <<"k", "i", "l", "i", "m", "a", "n", "i">>}
data_source_words == {<<"d", "a", "t", "a">>, <<"s", "o", "u", "r", "c", "e">>,
    <<"s", "a", "t", "e", "l", "l", "i", "t", "e">>, <<"h", "o", "w">>}
\* The words tested inside the temperature branch
superlative_words ==
    {<<"h", "i", "g", "h", "e", "s", "t">>, <<"m", "a", "x", "i", "m", "u", "m">>,
        <<"h", "o", "t", "t", "e", "s", "t">>, <<"l", "o", "w", "e", "s", "t">>,
        <<"m", "i", "n", "i", "m", "u", "m">>, <<"c", "o", "l", "d", "e", "s", "t">>,
     <<"a", "v", "e", "r", "a", "g", "e">>, <<"m", "e", "a", "n">>, <<"r", "a", "n", "g", "e">>}

\* The answers of the four temperature branches
highest_response(s, ci) ==
    "**Temperature Analysis**: The highest temperature recorded in the Kilimani area is **"
    \o fmt_2f(s.max_temp, Scale)
    \o "°C**. This represents the hottest surface temperature detected in the satellite imagery, likely corresponding to built-up areas with minimal vegetation or water bodies."
    \o (IF ci.tag = "dict"
        THEN "\n\n**Environmental Context**: This falls under the **"
             \o ci.val.temperature_stress_level \o "** category and indicates **"
             \o ci.val.uhi_level \o "** urban heat island intensity."
        ELSE "")

lowest_response(s, ci) ==
    "**Cool Zones**: The lowest temperature recorded is **"
    \o fmt_2f(s.min_temp, Scale)
    \o "°C**. These cooler areas typically represent locations with vegetation, water bodies, or shaded areas that provide natural cooling effects."
    \o (IF ci.tag = "dict"
        THEN "\n\n**Thermal Comfort**: The overall area shows **"
             \o ci.val.thermal_comfort_index \o "** conditions."
        ELSE "")

average_response(s, ci) ==
    "**Average Conditions**: The average surface temperature across Kilimani is **"
    \o fmt_2f(s.mean_temp.num, s.mean_temp.den) \o "°C**, with a standard deviation of **"
    \o fmt_std_2f(s.std_temp)
    \o "°C**. This indicates moderate temperature variability across the area."
    \o (IF ci.tag = "dict"
        THEN "\n\n**Assessment**: This represents **"
             \o ci.val.temperature_stress_level \o "** with **"
             \o ci.val.environmental_risk_level \o "** environmental risk."
        ELSE "")

range_response(s, ci) ==
    "**Temperature Span**: The temperature range spans **"
    \o fmt_2f(s.temp_range, Scale) \o "°C**, from **" \o fmt_2f(s.min_temp, Scale)
    \o "°C** to **" \o fmt_2f(s.max_temp, Scale)
    \o "°C**. This significant range suggests diverse land use patterns affecting local temperatures."
    \o (IF ci.tag = "dict"
        THEN "\n\n**UHI Analysis**: This range indicates **"
             \o ci.val.uhi_level \o "** urban heat island effects with intensity of **"
             \o ci.val.uhi_intensity \o "**."
        ELSE "")

\* The heat-island branch: it indexes data itself, which raises TypeError
\* when data is None.
heat_island_response(s, d, ci) ==
    IF ~d.loaded THEN Raised("TypeError")
    ELSE Str(
        "**Heat Island Analysis**: Approximately **"
        \o fmt_pct_1f(s.hot_pixels, s.total_pixels)
        \o "%** of the Kilimani area shows heat island characteristics (temperatures above **"
        \o fmt_2f(np_percentile(valid_values(d.pixels), 90), Scale) \o "°C**)."
        \o (IF ci.tag = "dict"
            THEN "\n\n**Classification**: **" \o ci.val.uhi_level
                 \o "** UHI intensity with **" \o ci.val.environmental_risk_level
                 \o "** environmental risk."
            ELSE "")
        \o "\n\n**Typical Heat Island Areas**:\n* Dense urban development\n* Areas with minimal vegetation\n* Commercial and industrial zones\n* Paved surfaces and buildings\n\n**Recommendation**: Increase green spaces and tree coverage in these areas to mitigate heat island effects.")

assessment_block(ci) ==
    IF ci.tag = "dict"
    THEN "\n\n**Environmental Assessment**:\n* **UHI Level**: " \o ci.val.uhi_level
         \o "\n* **Thermal Comfort**: " \o ci.val.thermal_comfort_index
         \o "\n* **Environmental Risk**: " \o ci.val.environmental_risk_level
    ELSE ""

statistics_response(s, ci) ==
    "**Statistical Summary for Kilimani LST Data**:\n\n* **Mean Temperature**: "
    \o fmt_2f(s.mean_temp.num, s.mean_temp.den) \o "°C\n* **Median Temperature**: "
    \o fmt_2f(s.median_temp, Scale) \o "°C\n* **Standard Deviation**: "
    \o fmt_std_2f(s.std_temp) \o "°C\n* **25th Percentile**: "
    \o fmt_2f(s.percentile_25, Scale) \o "°C\n* **75th Percentile**: "
    \o fmt_2f(s.percentile_75, Scale) \o "°C\n* **Temperature Range**: "
    \o fmt_2f(s.temp_range, Scale) \o "°C\n* **Total Data Points**: "
    \o fmt_commas(s.total_pixels) \o " pixels"
    \o assessment_block(ci)

area_response(s, ci) ==
    "**Study Area**: This analysis covers the **Kilimani area in Nairobi, Kenya**. The data reveals surface temperature variations across different land use types:\n\n* **Residential areas**: Mixed temperature patterns\n* **Commercial zones**: Generally warmer due to built infrastructure\n* **Green spaces**: Cooler temperatures providing natural cooling\n* **Road networks**: Elevated temperatures from asphalt surfaces"
    \o (IF ci.tag = "dict"
        THEN "\n\n**Overall Assessment**: The area shows **" \o ci.val.uhi_level
             \o "** urban heat island effects with **" \o ci.val.thermal_comfort_index
             \o "** thermal conditions."
        ELSE "")

data_source_response(s) ==
    "**Data Source & Methodology**:\n\n**Land Surface Temperature (LST)** data is derived from satellite imagery, specifically measuring the temperature of the Earth's surface as observed from space.\n\n**Key Points**:\n* Different from air temperature measured by weather stations\n* Excellent for identifying urban heat islands\n* Useful for environmental monitoring and urban planning\n* Provides spatial temperature patterns across large areas\n* Helps identify areas needing climate adaptation measures\n\n**Current Dataset**: Covers "
    \o fmt_commas(s.total_pixels) \o " measurement points across Kilimani area."

general_response(s, ci) ==
    "**Kilimani LST Analysis Overview**:\n\n**Key Findings**:\n* Temperature range: **"
    \o fmt_2f(s.temp_range, Scale) \o "°C** (from " \o fmt_2f(s.min_temp, Scale) \o "°C to "
    \o fmt_2f(s.max_temp, Scale) \o "°C)\n* Average temperature: **"
    \o fmt_2f(s.mean_temp.num, s.mean_temp.den) \o "°C**\n* Heat island areas: **"
    \o fmt_pct_1f(s.hot_pixels, s.total_pixels) \o "%** of total area\n* Data coverage: **"
    \o fmt_commas(s.total_pixels) \o "** measurement points"
    \o assessment_block(ci)
    \o "\n\n**Environmental Insights**:\n* Significant temperature variations suggest diverse land use\n* Heat island effects present in built-up areas\n* Opportunities for green infrastructure improvements\n\n**Ask me specific questions about temperatures, heat islands, statistics, or environmental recommendations!**"

\* The branch of the if/elif chain that a lower-cased question takes.  The
\* four superlative tests are nested inside the temperature branch: when the
\* question has a temperature word and none of them matches, control leaves
\* the chain ("none") without reaching an elif or the else.
fallback_branch(question_lower) ==
    IF any_in(temperature_words, question_lower)
    THEN IF any_in({<<"h", "i", "g", "h", "e", "s", "t">>, <<"m", "a", "x", "i", "m", "u", "m">>,
        <<"h", "o", "t", "t", "e", "s", "t">>}, question_lower) THEN "highest"
         ELSE IF any_in({<<"l", "o", "w", "e", "s", "t">>, <<"m", "i", "n", "i", "m", "u", "m">>,
             <<"c", "o", "l", "d", "e", "s", "t">>}, question_lower) THEN "lowest"
         ELSE IF any_in({<<"a", "v", "e", "r", "a", "g", "e">>, <<"m", "e", "a", "n">>}, question_lower) THEN "average"
         ELSE IF str_contains(question_lower, <<"r", "a", "n", "g", "e">>) THEN "range"
         ELSE "none"
    ELSE IF any_in(heat_island_words, question_lower) THEN "heat_island"
    ELSE IF any_in(statistics_words, question_lower) THEN "statistics"
    ELSE IF any_in(area_words, question_lower) THEN "area"
    ELSE IF any_in(data_source_words, question_lower) THEN "data_source"
    ELSE "general"

\* climate_indicators with the time of the analysis written into uhi_level
climate_indicators_stamped(context_data) ==
    IF context_data.tag = "dict"
    THEN [tag |-> "dict",
          val |-> [context_data.environmental_insights.climate_indicators
                       EXCEPT !.uhi_level =
                           @ \o " at " \o ToString(context_data.analysis_timestamp)]]
    ELSE [tag |-> "None", val |-> <<>>]

\* climate_indicators as create_fallback_response binds it: the indicators of
\* the context, or None when prepare_context_data returned None.
climate_indicators_of(context_data) ==
    IF context_data.tag = "dict"
    THEN [tag |-> "dict", val |-> context_data.environmental_insights.climate_indicators]
    ELSE [tag |-> "None", val |-> <<>>]

\* create_fallback_response(question, stats, data), called at time t.
\* prepare_context_data is called outside any try: its exception leaves the
\* function.
create_fallback_response(question, s, d, t) ==
    LET question_lower == str_lower(question)
        answer(ci, branch) ==
            CASE branch = "highest" -> Str(highest_response(s, ci))
              [] branch = "lowest" -> Str(lowest_response(s, ci))
              [] branch = "average" -> Str(average_response(s, ci))
              [] branch = "range" -> Str(range_response(s, ci))
              [] branch = "none" -> ReturnsNone
              [] branch = "heat_island" -> heat_island_response(s, d, ci)
              [] branch = "statistics" -> Str(statistics_response(s, ci))
              [] branch = "area" -> Str(area_response(s, ci))
              [] branch = "data_source" -> Str(data_source_response(s))
              [] OTHER -> Str(general_response(s, ci))
        respond(context_data) ==
            IF context_data.tag = "raise" THEN context_data
            ELSE answer(climate_indicators_of(context_data),
                        fallback_branch(question_lower))
    IN  respond(prepare_context_data(s, d, t))

(***************************************************************************)
(* The Azure OpenAI client.                                                *)
(***************************************************************************)
\* required_vars of validate_azure_openai_config
required_vars == {"AZURE_OPENAI_API_KEY", "AZURE_OPENAI_ENDPOINT",
                  "AZURE_OPENAI_API_VERSION", "AZURE_OPENAI_DEPLOYMENT_NAME"}

\* validate_azure_openai_config: the variables that are unset or empty.
\* e[v] tells whether os.getenv(v) is a non-empty string.
missing_vars(e) == {v \in required_vars : ~e[v]}

\* get_azure_openai_client: None when a variable is missing or when the
\* AzureOpenAI constructor raises (ctor_ok false), else the client.
get_azure_openai_client(e, ctor_ok) ==
    IF missing_vars(e) # {} THEN "None"
    ELSE IF ~ctor_ok THEN "None"
    ELSE "client"

(***************************************************************************)
(* Usage counters: monitor_api_usage and log_api_request.                  *)
(***************************************************************************)
ErrorKinds == {"quality", "rate_limit", "authentication", "timeout", "network", "unknown"}

\* The dict monitor_api_usage creates.  error_types maps a kind to its count
\* (0 for a key that is absent); last_request_time is <<>> for None.
InitialUsage ==
    [total_requests |-> 0, successful_requests |-> 0, failed_requests |-> 0,
     fallback_requests |-> 0, last_request_time |-> <<>>,
     error_types |-> [k \in ErrorKinds |-> 0]]

\* monitor_api_usage(): the dict of the session, created first when the
\* session has none (<<>>)
monitor_api_usage(session_stats) ==
    IF session_stats = <<>> THEN InitialUsage ELSE session_stats

\* A call of log_api_request, as its three arguments (error_type "" for None)
LogCall(success, error_type, fallback_used) ==
    [success |-> success, error_type |-> error_type, fallback_used |-> fallback_used]

\* log_api_request counting a failure only when it has an error kind
log_api_request_kind_only(u, c, t) ==
    [monitor_api_usage(u) EXCEPT
       !.total_requests = @ + 1,
       !.last_request_time = <<t>>,
       !.successful_requests = IF c.success THEN @ + 1 ELSE @,
       !.failed_requests = IF ~c.success /\ c.error_type # "" THEN @ + 1 ELSE @,
       !.error_types = IF ~c.success /\ c.error_type # ""
                       THEN [@ EXCEPT ![c.error_type] = @ + 1] ELSE @,
       !.fallback_requests = IF c.fallback_used THEN @ + 1 ELSE @]

\* log_api_request(success, error_type, fallback_used) at time t, on the
\* counters u of the session
log_api_request(u, c, t) ==
    [monitor_api_usage(u) EXCEPT
       !.total_requests = @ + 1,
       !.last_request_time = <<t>>,
       !.successful_requests = IF c.success THEN @ + 1 ELSE @,
       !.failed_requests = IF c.success THEN @ ELSE @ + 1,
       !.error_types = IF ~c.success /\ c.error_type # ""
                       THEN [@ EXCEPT ![c.error_type] = @ + 1] ELSE @,
       !.fallback_requests = IF c.fallback_used THEN @ + 1 ELSE @]

\* The counters after the calls of a sequence, in order
RECURSIVE log_all(_, _, _)
log_all(u, calls, t) ==
    IF calls = <<>> THEN u
    ELSE log_all(log_api_request(u, Head(calls), t), Tail(calls), t)

(***************************************************************************)
(* Rate limiting and error recovery.                                       *)
(***************************************************************************)
\* The defaults of handle_api_rate_limiting(retry_count=0, max_retries=3)
DefaultRetryCount == 0
DefaultMaxRetries == 3

\* handle_api_rate_limiting that still allows the retry when retry_count
\* equals max_retries (> for >=)
handle_api_rate_limiting_one_more(retry_count, max_retries) ==
    IF retry_count > max_retries
    THEN [can_retry |-> FALSE, message |-> "Maximum retry attempts exceeded. Please try again later.", slept |-> <<>>]
    ELSE LET wait_time == 2 ^ retry_count
         IN  [can_retry |-> TRUE, message |-> "Retrying after " \o ToString(wait_time) \o " second delay", slept |-> <<wait_time>>]

\* handle_api_rate_limiting: (can_retry, message) and the seconds it slept
handle_api_rate_limiting(retry_count, max_retries) ==
    IF retry_count >= max_retries
    THEN [can_retry |-> FALSE,
          message |-> "Maximum retry attempts exceeded. Please try again later.",
          slept |-> <<>>]
    ELSE LET wait_time == 2 ^ retry_count
         IN  [can_retry |-> TRUE,
              message |-> "Retrying after " \o ToString(wait_time) \o " second delay",
              slept |-> <<wait_time>>]

\* create_error_recovery_response(error_type, question, stats)
create_error_recovery_response(error_type, question, s) ==
    LET base_stats == "Based on available data: Temperature range "
                      \o fmt_1f(s.temp_range, Scale) \o "°C, Average "
                      \o fmt_1f(s.mean_temp.num, s.mean_temp.den) \o "°C"
    IN  IF error_type = "authentication"
        THEN "**Authentication Issue**: Unable to connect to Azure OpenAI. "
             \o base_stats \o ". Please check API credentials."
        ELSE IF error_type = "rate_limit"
        THEN "**Rate Limit**: Too many requests. "
             \o base_stats \o ". Please wait a moment before asking again."
        ELSE IF error_type = "network"
        THEN "**Network Issue**: Connection problem. "
             \o base_stats \o ". Please check your internet connection."
        ELSE IF error_type = "timeout"
        THEN "**Timeout**: Request took too long. "
             \o base_stats \o ". Please try a simpler question."
        ELSE "**Service Issue**: AI service temporarily unavailable. "
             \o base_stats \o ". Using basic analysis instead."

\* A wrong variant: 'network'/'connection' tested before 'timeout'.
classify_error_network_first(message) ==
    LET error_str == str_lower(message)
    IN  IF any_in({<<"r", "a", "t", "e", " ", "l", "i", "m", "i", "t">>,
        <<"q", "u", "o", "t", "a">>}, error_str) THEN "rate_limit"
        ELSE IF any_in({<<"a", "u", "t", "h", "e", "n", "t", "i", "c", "a", "t", "i", "o", "n">>,
            <<"u", "n", "a", "u", "t", "h", "o", "r", "i", "z", "e", "d">>}, error_str) THEN "authentication"
        ELSE IF any_in({<<"n", "e", "t", "w", "o", "r", "k">>,
            <<"c", "o", "n", "n", "e", "c", "t", "i", "o", "n">>}, error_str) THEN "network"
        ELSE IF str_contains(error_str, <<"t", "i", "m", "e", "o", "u", "t">>) THEN "timeout"
        ELSE "unknown"

\* The error_type the except clause of create_ai_response gives str(e)
classify_error(message) ==
    LET error_str == str_lower(message)
    IN  IF any_in({<<"r", "a", "t", "e", " ", "l", "i", "m", "i", "t">>,
        <<"q", "u", "o", "t", "a">>}, error_str) THEN "rate_limit"
        ELSE IF any_in({<<"a", "u", "t", "h", "e", "n", "t", "i", "c", "a", "t", "i", "o", "n">>,
            <<"u", "n", "a", "u", "t", "h", "o", "r", "i", "z", "e", "d">>}, error_str) THEN "authentication"
        ELSE IF str_contains(error_str, <<"t", "i", "m", "e", "o", "u", "t">>) THEN "timeout"
        ELSE IF any_in({<<"n", "e", "t", "w", "o", "r", "k">>,
            <<"c", "o", "n", "n", "e", "c", "t", "i", "o", "n">>}, error_str) THEN "network"
        ELSE "unknown"

\* A wrong variant: the footer is left out.
format_ai_response_no_footer(response, analysis_mode) ==
    LET mode_indicator ==
            IF analysis_mode = "Technical" THEN "**Technical Analysis**"
            ELSE IF analysis_mode = "Comprehensive" THEN "**Comprehensive Analysis**"
            ELSE IF analysis_mode = "Simple" THEN "**Simple Explanation**"
            ELSE "**AI Analysis**"
    IN  mode_indicator \o "\n\n" \o to_string(response)

\* format_ai_response(response, analysis_mode)
format_ai_response(response, analysis_mode) ==
    LET mode_indicator ==
            IF analysis_mode = "Technical" THEN "**Technical Analysis**"
            ELSE IF analysis_mode = "Comprehensive" THEN "**Comprehensive Analysis**"
            ELSE IF analysis_mode = "Simple" THEN "**Simple Explanation**"
            ELSE "**AI Analysis**"
    IN  mode_indicator \o "\n\n" \o to_string(response)
        \o "\n\n---\n*Analysis based on Kilimani LST satellite data * Generated using Azure OpenAI * Mode: "
        \o analysis_mode \o "*"

(***************************************************************************)
(* The orchestrator: create_ai_response.                                   *)
(***************************************************************************)
\* What client.chat.completions.create did: returned a completion whose
\* content is `text` (NoneStr for None), or raised with str(e) = `text`.
ApiText(text) == [kind |-> "text", text |-> text]
ApiException(message) == [kind |-> "exception", text |-> message]
\* The API was not called.
NoApi == [kind |-> "not_called", text |-> <<>>]

\* str(e) of an exception raised by the code itself
exception_message(name) ==
    IF name = "ZeroDivisionError" THEN
        <<"d", "i", "v", "i", "s", "i", "o", "n", " ", "b", "y", " ", "z", "e", "r", "o">> ELSE
        <<"u", "f", "u", "n", "c", " ", "'", "i", "s", "n", "a", "n", "'", " ", "n", "o", "t", " ", "s", "u", "p", "p", "o", "r", "t", "e", "d", " ", "f", "o", "r", " ", "t", "h", "e", " ", "i", "n", "p", "u", "t", " ", "t", "y", "p", "e", "s">>

\* The record of one call: its arguments, what it called and what it returned.
\*   client_obtained  get_cached_azure_client was called
\*   context_calls    calls of prepare_context_data made by create_ai_response itself
\*   api_calls        calls of client.chat.completions.create
\*   slept            the seconds of each time.sleep, in order
\*   log_calls        the calls of log_api_request, in order
\*   fallback_calls   calls of create_fallback_response
\*   recovery_calls   calls of create_error_recovery_response
StartRun(question, analysis_mode, api) ==
    [called |-> TRUE, question |-> question, analysis_mode |-> analysis_mode,
     api |-> api, client_obtained |-> FALSE, context_calls |-> 0, api_calls |-> 0,
     validated |-> FALSE, slept |-> <<>>, log_calls |-> <<>>, fallback_calls |-> 0,
     recovery_calls |-> 0, error_type |-> "", result |-> ReturnsNone]

\* No call was made yet.
NoRun == [StartRun(<<>>, "", NoApi) EXCEPT !.called = FALSE]

InsufficientDataMessage ==
    "I don't have enough data to analyze. Please ensure the LST data is loaded properly."

\* A wrong variant: the except clause logs once for the error and once more
\* for the fallback.
except_clause_double_log(run, message, s) ==
    LET error_type == classify_error(message)
        slept == IF error_type = "rate_limit"
                 THEN handle_api_rate_limiting(DefaultRetryCount, DefaultMaxRetries).slept
                 ELSE <<>>
    IN  [run EXCEPT
           !.error_type = error_type,
           !.slept = @ \o slept,
           !.log_calls = @ \o <<LogCall(FALSE, error_type, FALSE),
                                LogCall(FALSE, error_type, TRUE)>>,
           !.recovery_calls = @ + 1,
           !.result = Str(create_error_recovery_response(error_type, run.question, s))]

\* A wrong variant: the except clause logs the failure without fallback_used.
except_clause_not_flagged(run, message, s) ==
    LET error_type == classify_error(message)
        slept == IF error_type = "rate_limit"
                 THEN handle_api_rate_limiting(DefaultRetryCount, DefaultMaxRetries).slept
                 ELSE <<>>
    IN  [run EXCEPT
           !.error_type = error_type,
           !.slept = @ \o slept,
           !.log_calls = Append(@, LogCall(FALSE, error_type, FALSE)),
           !.recovery_calls = @ + 1,
           !.result = Str(create_error_recovery_response(error_type, run.question, s))]

\* The except clause: classify str(e); on rate_limit call
\* handle_api_rate_limiting() with its defaults (it sleeps, and its answer is
\* only shown: no second attempt is made); log one failed request; return the
\* recovery notice.
except_clause(run, message, s) ==
    LET error_type == classify_error(message)
        slept == IF error_type = "rate_limit"
                 THEN handle_api_rate_limiting(DefaultRetryCount, DefaultMaxRetries).slept
                 ELSE <<>>
    IN  [run EXCEPT
           !.error_type = error_type,
           !.slept = @ \o slept,
           !.log_calls = Append(@, LogCall(FALSE, error_type, TRUE)),
           !.recovery_calls = @ + 1,
           !.result = Str(create_error_recovery_response(error_type, run.question, s))]

\* `return create_fallback_response(question, stats, data)` inside the try
\* block: an exception of the responder is caught by the except clause.
fallback_in_try(run, s, d, t) ==
    LET run1 == [run EXCEPT !.fallback_calls = @ + 1]
        returned(fb) ==
            IF fb.tag = "raise" THEN except_clause(run1, exception_message(fb.val), s)
            ELSE [run1 EXCEPT !.result = fb]
    IN  returned(create_fallback_response(run.question, s, d, t))

\* A wrong variant: the text of the API is returned without being validated.
after_api_unvalidated(run, s, d, t) ==
    IF run.api.kind = "exception" THEN except_clause(run, run.api.text, s)
    ELSE [run EXCEPT
            !.log_calls = Append(@, LogCall(TRUE, "", FALSE)),
            !.result = Str(format_ai_response(run.api.text, run.analysis_mode))]

\* A wrong variant: the request is logged as successful before the text is
\* validated, and as failed as well when the validation fails.
after_api_logged_first(run, s, d, t) ==
    IF run.api.kind = "exception" THEN except_clause(run, run.api.text, s)
    ELSE LET v == validate_response_quality(run.api.text)
             run1 == [run EXCEPT !.validated = TRUE,
                                 !.log_calls = Append(@, LogCall(TRUE, "", FALSE))]
         IN  IF ~v.is_valid
             THEN fallback_in_try(
                      [run1 EXCEPT !.log_calls = Append(@, LogCall(FALSE, "quality", TRUE))],
                      s, d, t)
             ELSE [run1 EXCEPT
                     !.result = Str(format_ai_response(run.api.text, run.analysis_mode))]

\* The try block after the API answered.
after_api(run, s, d, t) ==
    IF run.api.kind = "exception" THEN except_clause(run, run.api.text, s)
    ELSE LET v == validate_response_quality(run.api.text)
             run1 == [run EXCEPT !.validated = TRUE]
         IN  IF ~v.is_valid
             THEN fallback_in_try(
                      [run1 EXCEPT !.log_calls = Append(@, LogCall(FALSE, "quality", TRUE))],
                      s, d, t)
             ELSE [run1 EXCEPT
                     !.log_calls = Append(@, LogCall(TRUE, "", FALSE)),
                     !.result = Str(format_ai_response(run.api.text, run.analysis_mode))]

\* A wrong variant: the client is obtained before the statistics are tested.
early_return_client_first(run) ==
    [run EXCEPT !.client_obtained = TRUE, !.result = Str(InsufficientDataMessage)]

\* `if not stats: return "I don't have enough data ..."`
early_return(run) == [run EXCEPT !.result = Str(InsufficientDataMessage)]

\* A wrong variant: the missing client is logged as a failed request.
no_client_logged(run, s, d, t) ==
    LET fb == create_fallback_response(run.question, s, d, t)
    IN  [run EXCEPT !.fallback_calls = @ + 1,
                    !.log_calls = Append(@, LogCall(FALSE, "unknown", TRUE)),
                    !.result = fb]

\* `if client is None: return create_fallback_response(...)`, outside the try
\* block: an exception of the responder leaves create_ai_response.
no_client(run, s, d, t) ==
    LET fb == create_fallback_response(run.question, s, d, t)
    IN  [run EXCEPT !.fallback_calls = @ + 1, !.result = fb]

\* Whether create_ai_response reaches client.chat.completions.create
reaches_api(s, d, client, t) ==
    /\ ~not_stats(s)
    /\ client # "None"
    /\ prepare_context_data(s, d, t).tag = "dict"

\* create_ai_response(question, stats, data, analysis_mode) at time t, with
\* the client the cache gave and the answer `api` of the API if it is called.
create_ai_response(question, s, d, analysis_mode, client, api, t) ==
    LET run0 == StartRun(question, analysis_mode, NoApi)
    IN  IF not_stats(s) THEN early_return(run0)
        ELSE LET run1 == [run0 EXCEPT !.client_obtained = TRUE]
             IN  IF client = "None" THEN no_client(run1, s, d, t)
                 ELSE LET context_data == prepare_context_data(s, d, t)
                          run2 == [run1 EXCEPT !.context_calls = @ + 1]
                      IN  IF context_data.tag = "raise"
                          THEN except_clause(run2, exception_message(context_data.val), s)
                          ELSE IF context_data.tag = "None"
                          THEN fallback_in_try(run2, s, d, t)
                          ELSE after_api([run2 EXCEPT !.api = api, !.api_calls = @ + 1],
                                         s, d, t)

(***************************************************************************)
(* Inputs.                                                                 *)
(***************************************************************************)
\* Grids: only NaN, one pixel, two and three valid pixels (with a NaN among
\* them), two equal pixels, four pixels, the ten values of
\* test_context_data_processing, and seventeen pixels whose mean, 344/17,
\* no float holds exactly.  SessionGrids are those a session may have
\* loaded (NoData: the file is missing).
G_all_nan == Grid(<<NaN, NaN>>)
G_two == Grid(<<Px(20), Px(32)>>)
G_three == Grid(<<Px(20), NaN, Px(26), Px(32)>>)
G_four == Grid(<<Px(20), Px(26), Px(31), Px(41)>>)
G_ten == Grid(<<Px(20), Px(25), Px(30), Px(35), Px(40),
                Px(22), Px(28), Px(33), Px(38), Px(24)>>)
G_seventeen == Grid([i \in 1..17 |-> Px(IF i <= 13 THEN 20 ELSE 21)])
SessionGrids == {NoData, G_all_nan, G_two, G_three, G_four, G_ten}

\* The choices of the "Analysis Complexity" select box
AnalysisModes == {"Comprehensive", "Technical", "Simple"}

\* Questions asked through the chat: sample questions of the page and two
\* typed ones.
ChatQuestions ==
    {
        <<"W", "h", "a", "t", "'", "s", " ", "t", "h", "e", " ", "a", "v", "e", "r", "a", "g", "e", " ", "t", "e", "m", "p", "e", "r", "a", "t", "u", "r", "e", " ", "i", "n", " ", "K", "i", "l", "i", "m", "a", "n", "i", "?">>,
     <<"W", "h", "a", "t", " ", "c", "a", "u", "s", "e", "s", " ", "t", "h", "e", " ", "h", "e", "a", "t", " ", "i", "s", "l", "a", "n", "d", "s", " ", "i", "n", " ", "t", "h", "i", "s", " ", "a", "r", "e", "a", "?">>,
     <<"W", "h", "a", "t", " ", "a", "r", "e", " ", "t", "h", "e", " ", "e", "n", "v", "i", "r", "o", "n", "m", "e", "n", "t", "a", "l", " ", "i", "m", "p", "l", "i", "c", "a", "t", "i", "o", "n", "s", "?">>,
     <<"W", "h", "e", "r", "e", " ", "a", "r", "e", " ", "t", "h", "e", " ", "h", "o", "t", " ", "s", "p", "o", "t", "s", "?">>}

\* Texts the API may return (the first and the last are those of
\* test_error_handling_scenarios)
T_valid == <<"T", "h", "i", "s", " ", "i", "s", " ", "a", " ", "c", "o", "m", "p", "r", "e", "h", "e", "n", "s", "i", "v", "e", " ", "a", "n", "a", "l", "y", "s", "i", "s", " ", "o", "f", " ", "t", "e", "m", "p", "e", "r", "a", "t", "u", "r", "e", " ", "d", "a", "t", "a", " ", "w", "i", "t", "h", " ", "d", "e", "t", "a", "i", "l", "e", "d", " ", "i", "n", "s", "i", "g", "h", "t", "s", ".">>
T_unable_help == <<"I", "'", "m", " ", "u", "n", "a", "b", "l", "e", " ", "t", "o", " ", "h", "e", "l", "p", " ", "w", "i", "t", "h", " ", "t", "h", "a", "t">>
T_Error == <<"E", "r", "r", "o", "r">>
\* Messages of the exceptions the API call may raise
ApiOutcomes ==
    {ApiText(T_valid), ApiText(T_unable_help), ApiText(T_Error), ApiText(NoneStr)}
    \cup {ApiException(m) : m \in
             {
                 <<"R", "a", "t", "e", " ", "l", "i", "m", "i", "t", " ", "e", "x", "c", "e", "e", "d", "e", "d">>,
              <<"A", "u", "t", "h", "e", "n", "t", "i", "c", "a", "t", "i", "o", "n", " ", "f", "a", "i", "l", "e", "d">>,
              <<"C", "o", "n", "n", "e", "c", "t", "i", "o", "n", " ", "t", "i", "m", "e", "o", "u", "t">>,
              <<"N", "e", "t", "w", "o", "r", "k", " ", "i", "s", " ", "u", "n", "r", "e", "a", "c", "h", "a", "b", "l", "e">>,
              <<"I", "n", "t", "e", "r", "n", "a", "l", " ", "s", "e", "r", "v", "e", "r", " ", "e", "r", "r", "o", "r">>}}

\* Texts given directly to validate_response_quality: up to MaxFrags of these
\* fragments, concatenated.  The first three have five words in 9 and in 10
\* characters, the third with a no-break space as its last separator.
TextFrags ==
    {<<"a", " ", "b", " ", "c", " ", "d", " ", "e">>,
        <<"a", " ", "b", " ", "c", " ", "d", " ", "e", "f">>,
        <<"a", " ", "b", " ", "c", " ", "d", " ", "e", "f">>, T_Error, T_valid,
     <<" ">>,
     <<"\f", " ">>,
     <<"i", " ", "d", "o", "n", "'", "t", " ", "h", "a", "v", "e", " ", "a", "c", "c", "e", "s", "s">>,
     <<"I", " ", "C", "a", "n", "n", "o", "t", " ", "A", "c", "c", "e", "s", "s">>,
     <<"I", "'", "m", " ", "u", "n", "a", "b", "l", "e", " ", "t", "o">>,
     <<"A", "n", " ", "e", "r", "r", "o", "r", " ", "o", "c", "c", "u", "r", "r", "e", "d">>,
     <<"S", "o", "m", "e", "t", "h", "i", "n", "g", " ", "W", "e", "n", "t", " ", "W", "r", "o", "n", "g">>,
     <<"t", "e", "m", "p", "e", "r", "a", "t", "u", "r", "e", "s">>,
     <<" ", "w", "a", "r", "m", " ", "a", "i", "r", " ", "r", "i", "s", "e", "s", " ", "s", "l", "o", "w", "l", "y">>}

RECURSIVE Concats(_, _)
Concats(frags, k) ==
    IF k = 0 THEN {<<>>}
    ELSE LET shorter == Concats(frags, k - 1)
         IN  shorter \cup {t \o f : t \in shorter, f \in frags}

Texts == Concats(TextFrags, MaxFrags) \cup {NoneStr}

\* Questions given directly to create_fallback_response: up to MaxWords of
\* these words, separated by one space.
QuestionWords ==
    temperature_words \cup heat_island_words \cup statistics_words \cup area_words
    \cup data_source_words
    \cup superlative_words \cup {<<"w", "h", "a", "t">>, <<"H", "o", "t", "t", "e", "s", "t">>,
        <<"H", "e", "a", "t", " ", "I", "s", "l", "a", "n", "d">>}

RECURSIVE Phrases(_, _)
Phrases(words, k) ==
    IF k = 1 THEN words
    ELSE LET shorter == Phrases(words, k - 1)
         IN  shorter \cup {p \o <<" ">> \o w : p \in shorter, w \in words}

Questions == Phrases(QuestionWords, MaxWords)

\* Grids with at least one valid pixel, for the direct calls of the responder
ResponderGrids ==
    {Grid(<<Px(21)>>), G_two, Grid(<<Px(25), Px(25)>>), G_three, G_four, G_ten,
     G_seventeen}

(***************************************************************************)
(* The session: the page loads the grid and computes its statistics once;  *)
(* each question asked calls create_ai_response.                           *)
(***************************************************************************)
NoValidation == [called |-> FALSE, is_valid |-> FALSE, message |-> ""]

\* No direct call of another function
NoCall == [fn |-> "", args |-> <<>>, done |-> FALSE, result |-> <<>>]

Idle ==
    /\ checked_text = <<>>
    /\ validation = NoValidation
    /\ fb_question = <<>>
    /\ fb_called = FALSE
    /\ fb_result = ReturnsNone
    /\ call = NoCall
    /\ log_threads = <<>>
    /\ initialize_community_data

\* The session after the first run of main().  monitor_api_usage has created
\* the usage counters when a grid was loaded (line 1344, in the chat section)
\* or when display_azure_openai_status found the API configured and
\* connected (line 1150, in the sidebar); without a grid and with a failed
\* or impossible status check the session has no counters.
Init ==
    /\ env \in [required_vars -> BOOLEAN]
    /\ client_cache = "unset"
    /\ data \in SessionGrids
    /\ stats = compute_lst_statistics(data)
    /\ api_usage_stats \in
          (IF data.loaded THEN {InitialUsage}
           ELSE IF missing_vars(env) = {} THEN {<<>>, InitialUsage}
           ELSE {<<>>})
    /\ queries = 0
    /\ last = NoRun
    /\ pending = <<>>
    /\ replaced_stats = <<>>
    /\ Idle

\* get_cached_azure_client: st.cache_resource runs get_azure_openai_client on
\* the first call and returns the cached value afterwards.
CachedClient(ctor_ok) ==
    IF client_cache = "unset" THEN get_azure_openai_client(env, ctor_ok) ELSE client_cache

\* The user asks a question (the Ask button, a sample question or a quick
\* action); the chat is shown only when a grid was loaded.  create_ai_response
\* starts: it tests the statistics, gets the client (which fills the cache)
\* and prepares the context; it then waits for the API, if it reaches it.
AskQuestion(question, analysis_mode) ==
    /\ pending = <<>>
    /\ queries < MaxQueries
    /\ data.loaded
    /\ \E ctor_ok \in (IF client_cache = "unset" /\ ~not_stats(stats)
                          /\ missing_vars(env) = {}
                       THEN BOOLEAN ELSE {TRUE}) :
         \E client \in {CachedClient(ctor_ok)} :
           /\ client_cache' = IF not_stats(stats) THEN client_cache ELSE client
           /\ pending' = <<[question |-> question, analysis_mode |-> analysis_mode,
                            client |-> client,
                            at |-> IF reaches_api(stats, data, client, queries)
                                   THEN "api" ELSE "return",
                            api |-> NoApi, slept |-> <<>>]>>
    /\ UNCHANGED <<env, data, stats, api_usage_stats, queries, last,
                   checked_text, validation,
                   fb_question, fb_called, fb_result, call, log_threads,
                   development_plans, uploaded_files, vote_history,
                   uploads_dir, now,
                   replaced_stats>>

\* client.chat.completions.create returns or raises.  On a rate-limit error
\* the except clause calls handle_api_rate_limiting, which sleeps.
ApiAnswers ==
    /\ pending # <<>>
    /\ pending[1].at = "api"
    /\ \E api \in ApiOutcomes :
         \E slept \in {IF api.kind = "exception"
                           /\ classify_error(api.text) = "rate_limit"
                        THEN handle_api_rate_limiting(DefaultRetryCount,
                                                      DefaultMaxRetries).slept
                        ELSE <<>>} :
           pending' = <<[pending[1] EXCEPT
                           !.api = api, !.slept = slept,
                           !.at = IF slept # <<>> THEN "sleep" ELSE "return"]>>
    /\ UNCHANGED <<env, client_cache, data, stats, api_usage_stats, queries, last,
                   checked_text, validation,
                   fb_question, fb_called, fb_result, call, log_threads,
                   development_plans, uploaded_files, vote_history,
                   uploads_dir, now,
                   replaced_stats>>

\* create_ai_response goes on to its end (after the sleep, if it slept): it
\* logs the request and returns; main appends the answer to the chat.
CreateAiResponseReturns ==
    /\ pending # <<>>
    /\ pending[1].at \in {"sleep", "return"}
    /\ \E run \in {create_ai_response(pending[1].question, stats, data,
                                       pending[1].analysis_mode, pending[1].client,
                                       pending[1].api, queries)} :
         /\ last' = run
         /\ api_usage_stats' = log_all(api_usage_stats, run.log_calls, queries)
    /\ queries' = queries + 1
    /\ pending' = <<>>
    /\ UNCHANGED <<env, client_cache, data, stats, checked_text, validation,
                   fb_question, fb_called, fb_result, call, log_threads,
                   development_plans, uploaded_files, vote_history,
                   uploads_dir, now,
                   replaced_stats>>

\* The page is run again and display_azure_openai_status finds the API
\* configured and connected: display_api_usage_stats (line 1150) calls
\* monitor_api_usage, which creates the counters if the session has none.
DisplayApiUsageStats ==
    /\ pending = <<>>
    /\ missing_vars(env) = {}
    /\ api_usage_stats' = monitor_api_usage(api_usage_stats)
    /\ UNCHANGED <<env, client_cache, data, stats, queries, last, pending,
                   checked_text, validation,
                   fb_question, fb_called, fb_result, call, log_threads,
                   development_plans, uploaded_files, vote_history,
                   uploads_dir, now,
                   replaced_stats>>

\* The Test Connection button of the sidebar, shown below the usage counters
\* when the status check of this run succeeded (lines 1147-1153): it gets
\* the cached client (which fills the cache) and sends a test request,
\* which changes nothing else.
TestConnection ==
    /\ pending = <<>>
    /\ missing_vars(env) = {}
    /\ api_usage_stats # <<>>
    /\ \E ctor_ok \in (IF client_cache = "unset" THEN BOOLEAN ELSE {TRUE}) :
         client_cache' = CachedClient(ctor_ok)
    /\ UNCHANGED <<env, data, stats, api_usage_stats, queries, last, pending,
                   checked_text, validation,
                   fb_question, fb_called, fb_result, call, log_threads,
                   development_plans, uploaded_files, vote_history,
                   uploads_dir, now,
                   replaced_stats>>

Next ==
    \/ \E question \in ChatQuestions, analysis_mode \in AnalysisModes :
           AskQuestion(question, analysis_mode)
    \/ ApiAnswers
    \/ CreateAiResponseReturns
    \/ DisplayApiUsageStats
    \/ TestConnection

Spec == Init /\ [][Next]_vars

(***************************************************************************)
(* validate_response_quality applied to a text.                            *)
(***************************************************************************)
InitValidate ==
    /\ env = [v \in required_vars |-> FALSE]
    /\ client_cache = "unset"
    /\ data = NoData
    /\ stats = EmptyStats
    /\ api_usage_stats = InitialUsage
    /\ queries = 0
    /\ last = NoRun
    /\ pending = <<>>
    /\ replaced_stats = <<>>
    /\ checked_text \in Texts
    /\ validation = NoValidation
    /\ fb_question = <<>>
    /\ fb_called = FALSE
    /\ fb_result = ReturnsNone
    /\ call = NoCall
    /\ log_threads = <<>>
    /\ initialize_community_data

ValidateResponseQuality ==
    /\ ~validation.called
    /\ validation' = [called |-> TRUE,
                      is_valid |-> validate_response_quality(checked_text).is_valid,
                      message |-> validate_response_quality(checked_text).message]
    /\ UNCHANGED <<env, client_cache, data, stats, api_usage_stats, queries, last,
                   checked_text, fb_question, fb_called, fb_result, call, log_threads,
                   development_plans, uploaded_files, vote_history,
                   uploads_dir, now, pending, replaced_stats>>

NextValidate == ValidateResponseQuality

SpecValidate == InitValidate /\ [][NextValidate]_vars

(***************************************************************************)
(* create_fallback_response applied to a question and a grid's statistics. *)
(***************************************************************************)
InitResponder ==
    /\ env = [v \in required_vars |-> FALSE]
    /\ client_cache = "unset"
    /\ data \in ResponderGrids
    /\ stats = compute_lst_statistics(data)
    /\ api_usage_stats = InitialUsage
    /\ queries = 0
    /\ last = NoRun
    /\ pending = <<>>
    /\ replaced_stats = <<>>
    /\ checked_text = <<>>
    /\ validation = NoValidation
    /\ fb_question \in Questions
    /\ fb_called = FALSE
    /\ fb_result = ReturnsNone
    /\ call = NoCall
    /\ log_threads = <<>>
    /\ initialize_community_data

CreateFallbackResponse ==
    /\ ~fb_called
    /\ fb_called' = TRUE
    /\ fb_result' = create_fallback_response(fb_question, stats, data, queries)
    /\ UNCHANGED <<env, client_cache, data, stats, api_usage_stats, queries, last,
                   checked_text, validation, fb_question, call, log_threads,
                   development_plans, uploaded_files, vote_history,
                   uploads_dir, now, pending, replaced_stats>>

NextResponder == CreateFallbackResponse

SpecResponder == InitResponder /\ [][NextResponder]_vars

(***************************************************************************)
(* The Community Voting page (src/pages/4_Community_Voting.py).  An        *)
(* uploaded file is a record [name, size]: its name as a sequence of       *)
(* characters and its size in bytes.  A plan is a dict, that is a function *)
(* from its keys, so that a plan may lack a key.                           *)
(***************************************************************************)
ALLOWED_FILE_TYPES == {<<"p", "d", "f">>, <<"d", "o", "c">>, <<"d", "o", "c", "x">>,
    <<"t", "x", "t">>}
MAX_FILE_SIZE_MB == 10

\* The errors validate_upload_form adds for the files, in order.  The size
\* of a file in MB is size / (1024 * 1024); its extension is
\* name.split('.')[-1].lower(), the part after the last '.' or the whole
\* name when it has no '.'.
RECURSIVE files_errors(_)
files_errors(files) ==
    IF files = <<>> THEN <<>>
    ELSE LET file == Head(files)
             dots == {i \in 1..Len(file.name) : file.name[i] = "."}
             last_dot == IF dots = {} THEN 0
                         ELSE CHOOSE i \in dots : \A j \in dots : j <= i
             file_extension ==
                 str_lower(SubSeq(file.name, last_dot + 1, Len(file.name)))
         IN  (IF file.size > MAX_FILE_SIZE_MB * 1024 * 1024
              THEN <<"File '" \o to_string(file.name) \o "' is too large ("
                      \o text_1f(round_half_even(10 * file.size, 1024 * 1024))
                      \o "MB). Maximum size is " \o ToString(MAX_FILE_SIZE_MB) \o "MB">>
              ELSE <<>>)
             \o (IF file_extension \notin ALLOWED_FILE_TYPES
                 THEN <<"File '" \o to_string(file.name)
                         \o "' has unsupported format. Allowed formats: PDF, DOC, DOCX, TXT">>
                 ELSE <<>>)
             \o files_errors(Tail(files))

\* validate_upload_form: the list of error messages (without their emoji)
validate_upload_form(title, description, files) ==
    (IF title = <<>> \/ str_strip(title) = <<>>
     THEN <<"Plan title is required">> ELSE <<>>)
    \o (IF description = <<>> \/ str_strip(description) = <<>>
        THEN <<"Plan description is required">> ELSE <<>>)
    \o (IF files = <<>> THEN <<"At least one file must be uploaded">> ELSE <<>>)
    \o files_errors(files)

\* d[k] = v on a dict
dict_set(d, k, v) == [x \in DOMAIN d \cup {k} |-> IF x = k THEN v ELSE d[x]]

\* cast_vote that counts an upvote as a downvote and a downvote as an upvote
cast_vote_swapped(plans, history, plan_id, vote_type, t) ==
    LET stops == {i \in 1..Len(plans) :
                     "id" \notin DOMAIN plans[i] \/ plans[i].id = plan_id}
        i == CHOOSE k \in stops : \A j \in stops : k <= j
        field == IF vote_type = "upvote" THEN "downvotes" ELSE "upvotes"
        unchanged(returned, errors) ==
            [returned |-> returned, errors |-> errors,
             development_plans |-> plans, vote_history |-> history]
    IN  IF stops = {} THEN unchanged(FALSE, 0)
        ELSE IF "id" \notin DOMAIN plans[i] THEN unchanged(FALSE, 1)
        ELSE IF vote_type \in {"upvote", "downvote"} /\ field \notin DOMAIN plans[i]
        THEN unchanged(FALSE, 1)
        ELSE [returned |-> TRUE, errors |-> 0,
              development_plans |->
                  IF vote_type \in {"upvote", "downvote"}
                  THEN [plans EXCEPT ![i] = [@ EXCEPT ![field] = @ + 1]]
                  ELSE plans,
              vote_history |->
                  dict_set(history, plan_id,
                           Append(IF plan_id \in DOMAIN history
                                  THEN history[plan_id] ELSE <<>>,
                                  [vote_type |-> vote_type, timestamp |-> t]))]

\* cast_vote that records the vote in the vote history before it updates the
\* count: the KeyError of a plan without the vote fields comes too late
cast_vote_history_first(plans, history, plan_id, vote_type, t) ==
    LET stops == {i \in 1..Len(plans) :
                     "id" \notin DOMAIN plans[i] \/ plans[i].id = plan_id}
        i == CHOOSE k \in stops : \A j \in stops : k <= j
        field == IF vote_type = "upvote" THEN "upvotes" ELSE "downvotes"
        recorded ==
            dict_set(history, plan_id,
                     Append(IF plan_id \in DOMAIN history
                            THEN history[plan_id] ELSE <<>>,
                            [vote_type |-> vote_type, timestamp |-> t]))
        unchanged(returned, errors) ==
            [returned |-> returned, errors |-> errors,
             development_plans |-> plans, vote_history |-> history]
    IN  IF stops = {} THEN unchanged(FALSE, 0)
        ELSE IF "id" \notin DOMAIN plans[i] THEN unchanged(FALSE, 1)
        ELSE IF vote_type \in {"upvote", "downvote"} /\ field \notin DOMAIN plans[i]
        THEN [returned |-> FALSE, errors |-> 1,
              development_plans |-> plans, vote_history |-> recorded]
        ELSE [returned |-> TRUE, errors |-> 0,
              development_plans |->
                  IF vote_type \in {"upvote", "downvote"}
                  THEN [plans EXCEPT ![i] = [@ EXCEPT ![field] = @ + 1]]
                  ELSE plans,
              vote_history |-> recorded]

\* cast_vote(plan_id, vote_type) at time t, on the plans and the vote history
\* of the session: what it returns, how often it calls st.error, and the
\* plans and the history afterwards.  The loop stops at the first plan whose
\* id matches; reading a key a plan lacks raises KeyError, which the except
\* clause reports and turns into False.
cast_vote(plans, history, plan_id, vote_type, t) ==
    LET stops == {i \in 1..Len(plans) :
                     "id" \notin DOMAIN plans[i] \/ plans[i].id = plan_id}
        i == CHOOSE k \in stops : \A j \in stops : k <= j
        field == IF vote_type = "upvote" THEN "upvotes" ELSE "downvotes"
        unchanged(returned, errors) ==
            [returned |-> returned, errors |-> errors,
             development_plans |-> plans, vote_history |-> history]
    IN  IF stops = {} THEN unchanged(FALSE, 0)
        ELSE IF "id" \notin DOMAIN plans[i] THEN unchanged(FALSE, 1)
        ELSE IF vote_type \in {"upvote", "downvote"} /\ field \notin DOMAIN plans[i]
        THEN unchanged(FALSE, 1)
        ELSE [returned |-> TRUE, errors |-> 0,
              development_plans |->
                  IF vote_type \in {"upvote", "downvote"}
                  THEN [plans EXCEPT ![i] = [@ EXCEPT ![field] = @ + 1]]
                  ELSE plans,
              vote_history |->
                  dict_set(history, plan_id,
                           Append(IF plan_id \in DOMAIN history
                                  THEN history[plan_id] ELSE <<>>,
                                  [vote_type |-> vote_type, timestamp |-> t]))]

\* The entry save_plan_metadata keeps for a file that save_uploaded_file
\* wrote to uploads/{plan_id}_{name}
saved_file(file, plan_id) ==
    [original_name |-> file.name,
     file_path |-> "uploads/" \o plan_id \o "_" \o to_string(file.name),
     file_size |-> file.size]

\* cleanup_failed_upload left out: the directory stays as it is.
cleanup_failed_upload_skipped(dir, saved_files, stuck) == dir

\* cleanup_failed_upload(saved_files): the directory afterwards.  unlink
\* removes a path that exists, unless it is one of `stuck`, for which unlink
\* raises (the code then shows a warning and goes on).
cleanup_failed_upload(dir, saved_files, stuck) ==
    dir \ ({saved_files[i].file_path : i \in DOMAIN saved_files} \ stuck)

\* save_plan_metadata(title, description, plan_type, start_date, files) at
\* time t.  What the environment decides is given as arguments: plan_id is
\* what str(uuid.uuid4())[:8] gives; save_uploaded_file fails for the file
\* number fails_at (0: for none), leaving a part of that file in the
\* directory when `partial`; unlink raises for the paths in `stuck`.
save_plan_metadata(plans, files_dict, dir, title, description, plan_type, start_date, files, t, plan_id, fails_at, partial, stuck) ==
    LET n == IF fails_at = 0 THEN Len(files) ELSE fails_at - 1
        saved_files == [i \in 1..n |-> saved_file(files[i], plan_id)]
        written == dir \cup {saved_files[i].file_path : i \in 1..n}
                       \cup (IF fails_at # 0 /\ partial
                             THEN {saved_file(files[fails_at], plan_id).file_path}
                             ELSE {})
        plan_data == [id |-> plan_id,
                      title |-> str_strip(title),
                      description |-> str_strip(description),
                      plan_type |-> plan_type,
                      proposed_start_date |-> start_date,
                      upload_date |-> t,
                      files |-> saved_files,
                      upvotes |-> 0,
                      downvotes |-> 0]
    IN  IF fails_at # 0
        THEN [returned |-> <<>>, errors |-> 1,
              development_plans |-> plans, uploaded_files |-> files_dict,
              uploads_dir |-> cleanup_failed_upload(written, saved_files, stuck)]
        ELSE [returned |-> <<plan_data>>, errors |-> 0,
              development_plans |-> Append(plans, plan_data),
              uploaded_files |-> dict_set(files_dict, plan_id, saved_files),
              uploads_dir |-> written]

\* filter_and_sort_plans without its sort: the filtered plans in the order
\* of the input.
filter_and_sort_plans_unsorted(plans, search_term, plan_type_filter, sort_by) ==
    LET search_lower == str_strip(str_lower(search_term))
    IN  [returned |->
             SelectSeq(plans, LAMBDA plan :
                 /\ \/ search_lower = <<>>
                    \/ str_contains(str_lower(plan.title), search_lower)
                    \/ str_contains(str_lower(plan.description), search_lower)
                 /\ \/ plan_type_filter = "All"
                    \/ ("plan_type" \in DOMAIN plan
                           /\ plan.plan_type = plan_type_filter)),
         plans |-> plans]

\* filter_and_sort_plans: the list it returns, and the list `plans` as the
\* call leaves it (the code filters and sorts a copy).  list.sort is stable,
\* also with reverse=True: the plan at index i goes behind the plans that
\* come before it by the key and behind the plans of equal key with a
\* smaller index.  Strings compare character by character in the order of
\* their code points (code_points: the printable characters up to U+00FF
\* in their order, without the grave accent U+0060, which no title of the
\* model holds).
filter_and_sort_plans(plans, search_term, plan_type_filter, sort_by) ==
    LET search_lower == str_strip(str_lower(search_term))
        searched ==
            IF search_term # <<>> /\ str_strip(search_term) # <<>>
            THEN SelectSeq(plans, LAMBDA plan :
                     \/ str_contains(str_lower(plan.title), search_lower)
                     \/ str_contains(str_lower(plan.description), search_lower))
            ELSE plans
        filtered_plans ==
            IF plan_type_filter # "" /\ plan_type_filter # "All"
            THEN SelectSeq(searched, LAMBDA plan :
                     (IF "plan_type" \in DOMAIN plan THEN plan.plan_type ELSE "")
                         = plan_type_filter)
            ELSE searched
        n == Len(filtered_plans)
        code_points == <<" ", "!", "\"", "#", "$", "%", "&", "'", "(", ")",
                         "*", "+", ",", "-", ".", "/", "0", "1", "2", "3",
                         "4", "5", "6", "7", "8", "9", ":", ";", "<", "=",
                         ">", "?", "@", "A", "B", "C", "D", "E", "F", "G",
                         "H", "I", "J", "K", "L", "M", "N", "O", "P", "Q",
                         "R", "S", "T", "U", "V", "W", "X", "Y", "Z", "[",
                         "\\", "]", "^", "_", "a", "b", "c", "d", "e",
                         "f", "g", "h", "i", "j", "k", "l", "m", "n", "o",
                         "p", "q", "r", "s", "t", "u", "v", "w", "x", "y",
                         "z", "{", "|", "}", "~", " ", "¡", "¢", "£", "¤",
                         "¥", "¦", "§", "¨", "©", "ª", "«", "¬", "­", "®",
                         "¯", "°", "±", "²", "³", "´", "µ", "¶", "·", "¸",
                         "¹", "º", "»", "¼", "½", "¾", "¿", "À", "Á", "Â",
                         "Ã", "Ä", "Å", "Æ", "Ç", "È", "É", "Ê", "Ë", "Ì",
                         "Í", "Î", "Ï", "Ð", "Ñ", "Ò", "Ó", "Ô", "Õ", "Ö",
                         "×", "Ø", "Ù", "Ú", "Û", "Ü", "Ý", "Þ", "ß", "à",
                         "á", "â", "ã", "ä", "å", "æ", "ç", "è", "é", "ê",
                         "ë", "ì", "í", "î", "ï", "ð", "ñ", "ò", "ó", "ô",
                         "õ", "ö", "÷", "ø", "ù", "ú", "û", "ü", "ý", "þ",
                         "ÿ">>
        ord(c) == CHOOSE k \in 1..Len(code_points) : code_points[k] = c
        str_less(a, b) ==
            \E k \in 1..(Len(a) + 1) :
                /\ \A j \in 1..(k - 1) : j <= Len(b) /\ a[j] = b[j]
                /\ k <= Len(b)
                /\ (k = Len(a) + 1 \/ ord(a[k]) < ord(b[k]))
        votes(p) == p.upvotes + p.downvotes
        before(p, q) ==
            CASE sort_by = "Upload Date" -> p.upload_date > q.upload_date
              [] sort_by = "Most Votes" -> votes(p) > votes(q)
              [] sort_by = "Title" -> str_less(str_lower(p.title), str_lower(q.title))
              [] OTHER -> FALSE
        position(i) ==
            1 + Cardinality({j \in 1..n :
                    \/ before(filtered_plans[j], filtered_plans[i])
                    \/ (~before(filtered_plans[i], filtered_plans[j]) /\ j < i)})
    IN  [returned |-> [k \in 1..n |->
                          filtered_plans[CHOOSE i \in 1..n : position(i) = k]],
         plans |-> plans]

(***************************************************************************)
(* log_api_request run by several threads on the same session.  The code   *)
(* takes no lock: in monitor_api_usage another thread may run between the  *)
(* test `'api_usage_stats' not in st.session_state`, the creation of the   *)
(* dict and the return of the dict that is in the session, and             *)
(* `d[k] += 1` is a read of d[k] followed by a write, between which        *)
(* another thread may run.                                                 *)
(***************************************************************************)
\* Number of concurrent queries
NumThreads == 2

\* The log_api_request calls that create_ai_response makes
LogArgs ==
    {LogCall(TRUE, "", FALSE), LogCall(FALSE, "quality", TRUE),
     LogCall(FALSE, "timeout", TRUE)}

\* The steps of log_api_request(c) in the order of its statements: the three
\* steps of monitor_api_usage() (the test of line 314, the creation of lines
\* 315-322, the return of line 324), then the keys it assigns.
log_steps(c) ==
    <<"check", "create", "get", "total_requests", "last_request_time">>
    \o (IF c.success THEN <<"successful_requests">> ELSE <<"failed_requests">>)
    \o (IF ~c.success /\ c.error_type # "" THEN <<"error_types">> ELSE <<>>)
    \o (IF c.fallback_used THEN <<"fallback_requests">> ELSE <<>>)

\* Whether thread i has returned from log_api_request
thread_done(i) == log_threads[i].at > Len(log_steps(log_threads[i].c))

\* The step thread i is at
thread_key(i) == log_steps(log_threads[i].c)[log_threads[i].at]

\* The dict `stats` of thread i: the one in the session (holds = 0) or one
\* that a later creation has replaced there (replaced_stats[holds])
held_stats(i) ==
    IF log_threads[i].holds = 0 THEN api_usage_stats
    ELSE replaced_stats[log_threads[i].holds]

\* The session starts with or without the key 'api_usage_stats' (<<>>: no
\* key).  A thread about to run log_api_request(c): the step it is at, the
\* dict it holds once monitor_api_usage has returned, whether it has read the
\* counter of its statement, and the value read.
InitConcurrent ==
    /\ env = [v \in required_vars |-> TRUE]
    /\ client_cache = "client"
    /\ data = NoData
    /\ stats = EmptyStats
    /\ api_usage_stats \in {<<>>, InitialUsage}
    /\ replaced_stats = <<>>
    /\ queries = 0
    /\ last = NoRun
    /\ pending = <<>>
    /\ checked_text = <<>>
    /\ validation = NoValidation
    /\ fb_question = <<>>
    /\ fb_called = FALSE
    /\ fb_result = ReturnsNone
    /\ call = NoCall
    /\ log_threads \in [1..NumThreads ->
                          {[c |-> c, at |-> 1, holds |-> 0, has_read |-> FALSE, tmp |-> 0] :
                             c \in LogArgs}]
    /\ initialize_community_data

\* stats = monitor_api_usage(), one of its steps: the test of the key (a
\* thread that sees the key goes on to the return), the creation, which puts
\* a new dict into the session in place of the one that may be there and
\* that other threads may hold, and the return of the dict in the session.
MonitorApiUsage(i) ==
    /\ ~thread_done(i)
    /\ thread_key(i) \in {"check", "create", "get"}
    /\ LET holders == {j \in 1..NumThreads :
                          /\ ~thread_done(j)
                          /\ log_threads[j].at > 3
                          /\ log_threads[j].holds = 0}
           replaces == thread_key(i) = "create" /\ api_usage_stats # <<>> /\ holders # {}
       IN  /\ api_usage_stats' =
                IF thread_key(i) = "create" THEN InitialUsage ELSE api_usage_stats
           /\ replaced_stats' =
                IF replaces THEN Append(replaced_stats, api_usage_stats) ELSE replaced_stats
           /\ log_threads' =
                [j \in 1..NumThreads |->
                   IF j = i
                   THEN [log_threads[i] EXCEPT
                           !.at = IF thread_key(i) = "check" /\ api_usage_stats # <<>>
                                  THEN @ + 2 ELSE @ + 1,
                           !.holds = 0]
                   ELSE IF replaces /\ j \in holders
                   THEN [log_threads[j] EXCEPT !.holds = Len(replaced_stats) + 1]
                   ELSE log_threads[j]]
    /\ UNCHANGED <<env, client_cache, data, stats, queries, last,
                   checked_text, validation, fb_question, fb_called, fb_result, call,
                   development_plans, uploaded_files, vote_history,
                   uploads_dir, now, pending>>

\* The read of `stats[k] += 1` (for error_types: the .get(error_type, 0))
LogRead(i) ==
    /\ ~thread_done(i)
    /\ thread_key(i) \notin {"check", "create", "get", "last_request_time"}
    /\ ~log_threads[i].has_read
    /\ log_threads' =
         [log_threads EXCEPT ![i] =
            [@ EXCEPT !.has_read = TRUE,
                      !.tmp = IF thread_key(i) = "error_types"
                              THEN held_stats(i).error_types[log_threads[i].c.error_type]
                              ELSE held_stats(i)[thread_key(i)]]]
    /\ UNCHANGED <<env, client_cache, data, stats, api_usage_stats, replaced_stats, queries, last,
                   checked_text, validation, fb_question, fb_called, fb_result, call,
                   development_plans, uploaded_files, vote_history,
                   uploads_dir, now, pending>>

\* The write of `stats[k] += 1`: the value read, plus 1
LogWrite(i) ==
    /\ ~thread_done(i)
    /\ log_threads[i].has_read
    /\ \E written \in
            {IF thread_key(i) = "error_types"
             THEN [held_stats(i) EXCEPT
                     !.error_types[log_threads[i].c.error_type] = log_threads[i].tmp + 1]
             ELSE [held_stats(i) EXCEPT ![thread_key(i)] = log_threads[i].tmp + 1]} :
         IF log_threads[i].holds = 0
         THEN api_usage_stats' = written /\ UNCHANGED replaced_stats
         ELSE /\ replaced_stats' = [replaced_stats EXCEPT ![log_threads[i].holds] = written]
              /\ UNCHANGED api_usage_stats
    /\ log_threads' =
         [log_threads EXCEPT ![i] = [@ EXCEPT !.has_read = FALSE, !.tmp = 0, !.at = @ + 1]]
    /\ UNCHANGED <<env, client_cache, data, stats, queries, last,
                   checked_text, validation, fb_question, fb_called, fb_result, call,
                   development_plans, uploaded_files, vote_history,
                   uploads_dir, now, pending>>

\* stats['last_request_time'] = datetime.now()
LogSetTime(i) ==
    /\ ~thread_done(i)
    /\ thread_key(i) = "last_request_time"
    /\ IF log_threads[i].holds = 0
       THEN /\ api_usage_stats' = [api_usage_stats EXCEPT !.last_request_time = <<queries>>]
            /\ UNCHANGED replaced_stats
       ELSE /\ replaced_stats' = [replaced_stats EXCEPT
                                   ![log_threads[i].holds].last_request_time = <<queries>>]
            /\ UNCHANGED api_usage_stats
    /\ log_threads' = [log_threads EXCEPT ![i] = [@ EXCEPT !.at = @ + 1]]
    /\ UNCHANGED <<env, client_cache, data, stats, queries, last,
                   checked_text, validation, fb_question, fb_called, fb_result, call,
                   development_plans, uploaded_files, vote_history,
                   uploads_dir, now, pending>>

NextConcurrent ==
    \E i \in 1..NumThreads :
        MonitorApiUsage(i) \/ LogRead(i) \/ LogWrite(i) \/ LogSetTime(i)

SpecConcurrent == InitConcurrent /\ [][NextConcurrent]_vars

(***************************************************************************)
(* Direct calls of the statistics and of the helper functions, each on     *)
(* arguments drawn from a bounded set.                                     *)
(***************************************************************************)
\* Most pixels of a grid given directly to the statistics.
MaxPixels == 3
\* Largest retry_count and max_retries given to handle_api_rate_limiting.
MaxRetryCount == 4
\* Most files given to validate_upload_form.
MaxFiles == 2

\* Sequences of at most k pixels, each NaN or one of four temperatures
RECURSIVE PixelSeqs(_)
PixelSeqs(k) ==
    IF k = 0 THEN {<<>>}
    ELSE LET shorter == PixelSeqs(k - 1)
         IN  shorter \cup {Append(p, x) : p \in {q \in shorter : Len(q) = k - 1},
                                          x \in {NaN, Px(20), Px(25), Px(31), Px(41)}}

\* Lists of at most k files: of 1 MB, 15 MB, exactly 10 MB and one byte
\* more; with an allowed extension in lower and in upper case, with another
\* extension, with two dots, with nothing after the dot and without a dot
RECURSIVE FileLists(_)
FileLists(k) ==
    IF k = 0 THEN {<<>>}
    ELSE LET shorter == FileLists(k - 1)
         IN  shorter \cup
             {Append(l, f) :
                 l \in {q \in shorter : Len(q) = k - 1},
                 f \in {[name |->
                     <<"t", "e", "s", "t", "_", "p", "l", "a", "n", ".", "p", "d", "f">>, size |-> 1024 * 1024],
                        [name |->
                            <<"l", "a", "r", "g", "e", "_", "p", "l", "a", "n", ".", "p", "d", "f">>, size |-> 15 * 1024 * 1024],
                        [name |-> <<"p", "l", "a", "n", ".", "e", "x", "e">>, size |-> 1024 * 1024],
                        [name |-> <<"b", "i", "g", ".", "e", "x", "e">>, size |-> 15 * 1024 * 1024],
                        [name |-> <<"e", "x", "a", "c", "t", ".", "d", "o", "c", "x">>, size |-> 10 * 1024 * 1024],
                        [name |-> <<"o", "v", "e", "r", ".", "d", "o", "c">>, size |-> 10 * 1024 * 1024 + 1],
                        [name |-> <<"N", "o", "t", "e", "s", ".", "T", "X", "T">>, size |-> 2048],
                        [name |-> <<"p", "l", "a", "n", ".", "v", "2", ".", "t", "x", "t">>, size |-> 2048],
                        [name |-> <<"p", "l", "a", "n", ".">>, size |-> 2048],
                        [name |-> <<"p", "d", "f">>, size |-> 2048]}}

\* Most log_api_request calls in a sequence.
MaxLogCalls == 2

\* Most plans in a list given to filter_and_sort_plans.
MaxPlans == 2

\* The plans of TestFilteringAndSorting; upload dates as yyyymmdd.
filter_test_plans ==
    <<[id |-> "plan1", title |->
        <<"R", "e", "s", "i", "d", "e", "n", "t", "i", "a", "l", " ", "C", "o", "m", "p", "l", "e", "x">>,
       description |->
           <<"A", " ", "m", "o", "d", "e", "r", "n", " ", "r", "e", "s", "i", "d", "e", "n", "t", "i", "a", "l", " ", "d", "e", "v", "e", "l", "o", "p", "m", "e", "n", "t">>,
       plan_type |-> "Residential", upload_date |-> 20240101,
       upvotes |-> 10, downvotes |-> 2],
      [id |-> "plan2", title |->
          <<"C", "o", "m", "m", "e", "r", "c", "i", "a", "l", " ", "C", "e", "n", "t", "e", "r">>,
       description |->
           <<"S", "h", "o", "p", "p", "i", "n", "g", " ", "a", "n", "d", " ", "o", "f", "f", "i", "c", "e", " ", "c", "o", "m", "p", "l", "e", "x">>,
       plan_type |-> "Commercial", upload_date |-> 20240201,
       upvotes |-> 5, downvotes |-> 3],
      [id |-> "plan3", title |->
          <<"M", "i", "x", "e", "d", " ", "U", "s", "e", " ", "B", "u", "i", "l", "d", "i", "n", "g">>,
       description |->
           <<"R", "e", "s", "i", "d", "e", "n", "t", "i", "a", "l", " ", "a", "n", "d", " ", "c", "o", "m", "m", "e", "r", "c", "i", "a", "l", " ", "m", "i", "x", "e", "d", " ", "u", "s", "e">>,
       plan_type |-> "Mixed-Use", upload_date |-> 20240301,
       upvotes |-> 15, downvotes |-> 1]>>

\* The lists of at most k plans: the plans of TestFilteringAndSorting, a plan
\* that ties with plan2 on every sort key, and a plan without a plan_type
\* whose title begins with a capital letter of Latin-1.
RECURSIVE PlanLists(_)
PlanLists(k) ==
    IF k = 0 THEN {<<>>}
    ELSE LET shorter == PlanLists(k - 1)
         IN  shorter \cup
             {Append(l, p) :
                 l \in {q \in shorter : Len(q) = k - 1},
                 p \in {filter_test_plans[i] : i \in 1..3} \cup
                       {[id |-> "plan4", title |->
                           <<"c", "o", "m", "m", "e", "r", "c", "i", "a", "l", " ", "c", "e", "n", "t", "e", "r">>,
                         description |-> <<"O", "f", "f", "i", "c", "e", "s", " ", "2">>,
                         plan_type |-> "Commercial", upload_date |-> 20240201,
                         upvotes |-> 8, downvotes |-> 0],
                        [id |-> "plan5", title |-> <<"É", "c", "o", "l", "e", " ", "1">>,
                         description |-> <<"M", "i", "x", "e", "d">>, upload_date |-> 20231201,
                         upvotes |-> 0, downvotes |-> 0]}}

\* The argument tuples given to fn:
\*  - grids of 1..MaxPixels pixels, the grid of test_context_data_processing,
\*    and two grids whose mean no float holds exactly: 20.235... (17 pixels)
\*    and 20.075 (40 pixels), half-way between 20.07 and 20.08;
\*  - mean temperatures from 11.0 to 31.0 degrees, by tenths;
\*  - statistics around the thresholds of assess_environmental_risk: max_temp
\*    30, 30.5, 35, 35.5, 40, 40.5; std_temp 0, 3, sqrt(37)/2, 5, sqrt(101)/2;
\*    temp_range 0, 10, 10.5, 15, 15.5;
\*  - every retry_count and max_retries up to MaxRetryCount;
\*  - the titles and descriptions of TestFileUploadValidation (given, empty,
\*    blank) with every list of at most MaxFiles files;
\*  - the lists of at most MaxPlans plans and the list of
\*    TestFilteringAndSorting, with search terms in either case, padded, blank
\*    and without a match, and every choice of the two select boxes;
\*  - the sequences of at most MaxLogCalls calls of log_api_request, each with
\*    any success and fallback_used and with error_type None or a kind.
Arguments(fn) ==
    CASE fn \in {"compute_lst_statistics", "prepare_context_data"} ->
            {<<Grid(p)>> : p \in PixelSeqs(MaxPixels) \ {<<>>}}
            \cup {<<G_ten>>, <<G_seventeen>>,
                  <<Grid([i \in 1..40 |-> Px(IF i <= 37 THEN 20 ELSE 21)])>>}
      [] fn = "calculate_thermal_comfort" ->
            {<<[num |-> k, den |-> 10]>> : k \in 110..310}
      [] fn = "assess_environmental_risk" ->
            {<<[max_temp |-> m * (Scale \div 2), std_temp |-> [rad |-> r, den |-> 2],
                temp_range |-> g * (Scale \div 2)]>> :
                m \in {60, 61, 70, 71, 80, 81}, r \in {0, 36, 37, 100, 101},
                g \in {0, 20, 21, 30, 31}}
      [] fn = "handle_api_rate_limiting" ->
            (0..MaxRetryCount) \X (0..MaxRetryCount)
      [] fn = "validate_upload_form" ->
            {
                <<"T", "e", "s", "t", " ", "D", "e", "v", "e", "l", "o", "p", "m", "e", "n", "t", " ", "P", "l", "a", "n">>,
                <<>>, <<" ", " ", " ">>, <<"\f", " ">>}
                \X {
                    <<"A", " ", "c", "o", "m", "p", "r", "e", "h", "e", "n", "s", "i", "v", "e", " ", "d", "e", "v", "e", "l", "o", "p", "m", "e", "n", "t", " ", "p", "l", "a", "n", " ", "f", "o", "r", " ", "t", "e", "s", "t", "i", "n", "g">>,
                    <<>>, <<" ", " ", " ">>}
                \X FileLists(MaxFiles)
      [] fn = "filter_and_sort_plans" ->
            (PlanLists(MaxPlans) \cup {filter_test_plans})
                \X {<<>>, <<" ", " ", " ">>, <<"\f", " ">>,
                    <<"r", "e", "s", "i", "d", "e", "n", "t", "i", "a", "l">>,
                    <<" ", "C", "o", "m", "m", "e", "r", "c", "i", "a", "l", " ">>,
                    <<"M", "I", "X", "E", "D">>,
                    <<"É", "C", "O", "L", "E">>,
                    <<"s", "t", "a", "d", "i", "u", "m">>}
                \X {"All", "Residential", "Commercial", "Mixed-Use", "Industrial"}
                \X {"Upload Date", "Most Votes", "Title"}
      [] fn = "log_api_request" ->
            {<<calls>> :
                calls \in UNION {[1..n -> {LogCall(success, error_type, fallback_used) :
                                              success \in BOOLEAN,
                                              error_type \in {"", "quality", "timeout"},
                                              fallback_used \in BOOLEAN}] :
                                 n \in 0..MaxLogCalls}}

\* The calls not made yet, one per function and argument tuple
FunctionCalls ==
    UNION {{[fn |-> fn, args |-> args, done |-> FALSE, result |-> <<>>] :
                args \in Arguments(fn)} :
           fn \in {"compute_lst_statistics", "prepare_context_data",
                   "calculate_thermal_comfort", "assess_environmental_risk",
                   "handle_api_rate_limiting", "validate_upload_form",
                   "filter_and_sort_plans", "log_api_request"}}

InitFunctions ==
    /\ env = [v \in required_vars |-> FALSE]
    /\ client_cache = "unset"
    /\ data = NoData
    /\ stats = EmptyStats
    /\ api_usage_stats = InitialUsage
    /\ queries = 0
    /\ last = NoRun
    /\ pending = <<>>
    /\ replaced_stats = <<>>
    /\ checked_text = <<>>
    /\ validation = NoValidation
    /\ fb_question = <<>>
    /\ fb_called = FALSE
    /\ fb_result = ReturnsNone
    /\ call \in FunctionCalls
    /\ log_threads = <<>>
    /\ initialize_community_data

\* The call recorded in `call` is made and gives result.
Returns(fn, result) ==
    /\ call.fn = fn
    /\ ~call.done
    /\ call' = [call EXCEPT !.done = TRUE, !.result = result]
    /\ UNCHANGED <<env, client_cache, data, stats, api_usage_stats, queries, last,
                   checked_text, validation, fb_question, fb_called, fb_result,
                   log_threads,
                   development_plans, uploaded_files, vote_history,
                   uploads_dir, now, pending, replaced_stats>>

ComputeLstStatistics ==
    Returns("compute_lst_statistics", compute_lst_statistics(call.args[1]))

\* prepare_context_data(compute_lst_statistics(data), data), as the page and
\* test_context_data_processing call it
PrepareContextData ==
    Returns("prepare_context_data",
            prepare_context_data(compute_lst_statistics(call.args[1]), call.args[1],
                                 queries))

CalculateThermalComfort ==
    Returns("calculate_thermal_comfort", calculate_thermal_comfort(call.args[1]))

AssessEnvironmentalRisk ==
    Returns("assess_environmental_risk", assess_environmental_risk(call.args[1]))

HandleApiRateLimiting ==
    Returns("handle_api_rate_limiting",
            handle_api_rate_limiting(call.args[1], call.args[2]))

ValidateUploadForm ==
    Returns("validate_upload_form",
            validate_upload_form(call.args[1], call.args[2], call.args[3]))

FilterAndSortPlans ==
    Returns("filter_and_sort_plans",
            filter_and_sort_plans(call.args[1], call.args[2], call.args[3],
                                  call.args[4]))

\* The calls of the sequence are made one after the other on the counters
\* of the session (those monitor_api_usage created), which they change.
LogApiRequests ==
    /\ call.fn = "log_api_request"
    /\ ~call.done
    /\ api_usage_stats' = log_all(api_usage_stats, call.args[1], 1)
    /\ call' = [call EXCEPT !.done = TRUE,
                            !.result = log_all(api_usage_stats, call.args[1], 1)]
    /\ UNCHANGED <<env, client_cache, data, stats, queries, last, pending,
                   checked_text, validation, fb_question, fb_called, fb_result,
                   log_threads,
                   development_plans, uploaded_files, vote_history,
                   uploads_dir, now,
                   replaced_stats>>

NextFunctions ==
    \/ ComputeLstStatistics
    \/ PrepareContextData
    \/ CalculateThermalComfort
    \/ AssessEnvironmentalRisk
    \/ HandleApiRateLimiting
    \/ ValidateUploadForm
    \/ FilterAndSortPlans
    \/ LogApiRequests

SpecFunctions == InitFunctions /\ [][NextFunctions]_vars

(***************************************************************************)
(* A session of the Community Voting page: plans are submitted and votes   *)
(* are cast, starting from no plans, from the plans of TestVotingSystem or *)
(* from the plan of test_cast_vote_exception_handling.                     *)
(***************************************************************************)
\* Most operations (submissions and votes) of a session.
MaxOperations == 3

\* The values str(uuid.uuid4())[:8] takes; a value may come again.
PlanIds == {"a1b2c3d4", "e5f6a7b8"}

\* self.test_plans of TestVotingSystem
test_plans ==
    <<[id |-> "plan1", title |-> <<"P", "l", "a", "n", " ", "1">>, description |->
        <<"D", "e", "s", "c", "r", "i", "p", "t", "i", "o", "n", " ", "1">>,
       upload_date |-> 0, files |-> <<>>, upvotes |-> 5, downvotes |-> 2],
      [id |-> "plan2", title |-> <<"P", "l", "a", "n", " ", "2">>, description |->
          <<"D", "e", "s", "c", "r", "i", "p", "t", "i", "o", "n", " ", "2">>,
       upload_date |-> 0, files |-> <<>>, upvotes |-> 3, downvotes |-> 4]>>

InitVoting ==
    /\ env = [v \in required_vars |-> FALSE]
    /\ client_cache = "unset"
    /\ data = NoData
    /\ stats = EmptyStats
    /\ api_usage_stats = InitialUsage
    /\ queries = 0
    /\ last = NoRun
    /\ pending = <<>>
    /\ replaced_stats = <<>>
    /\ checked_text = <<>>
    /\ validation = NoValidation
    /\ fb_question = <<>>
    /\ fb_called = FALSE
    /\ fb_result = ReturnsNone
    /\ call = NoCall
    /\ log_threads = <<>>
    /\ development_plans \in {<<>>, test_plans, <<[id |-> "plan1"]>>}
    /\ uploaded_files = <<>>
    /\ vote_history = <<>>
    /\ uploads_dir = {}
    /\ now = 0

\* The form of display_upload_section is submitted: the inputs are
\* validated and, when no error is found, process_plan_upload is called.
\* It returns whether save_plan_metadata returned a plan.
SubmitPlan(title, files) ==
    /\ now < MaxOperations
    /\ now' = now + 1
    /\ \E validation_errors \in {validate_upload_form(title,
        <<"G", "r", "e", "e", "n", " ", "M", "a", "l", "l">>, files)} :
         IF validation_errors # <<>>
         THEN /\ call' = [fn |-> "validate_upload_form", args |-> <<title, files>>,
                          done |-> TRUE, result |-> validation_errors]
              /\ UNCHANGED <<development_plans, uploaded_files, uploads_dir,
                   replaced_stats>>
         ELSE \E plan_id \in PlanIds, fails_at \in 0..Len(files), partial \in BOOLEAN,
                 stuck \in SUBSET {saved_file(files[1], p).file_path : p \in PlanIds} :
                \E r \in {save_plan_metadata(development_plans, uploaded_files,
                              uploads_dir, title,
                                  <<"G", "r", "e", "e", "n", " ", "M", "a", "l", "l">>, "Commercial",
                              "2024-06-01", files, now, plan_id, fails_at,
                              fails_at # 0 /\ partial,
                              IF fails_at > 1 THEN stuck ELSE {})} :
                  /\ call' = [fn |-> "process_plan_upload",
                              args |-> <<title, files, plan_id, fails_at,
                                         IF fails_at > 1 THEN stuck ELSE {}>>,
                              done |-> TRUE,
                              result |-> [success |-> r.returned # <<>>,
                                          plan_data |-> r.returned]]
                  /\ development_plans' = r.development_plans
                  /\ uploaded_files' = r.uploaded_files
                  /\ uploads_dir' = r.uploads_dir
    /\ UNCHANGED <<env, client_cache, data, stats, api_usage_stats, queries, last,
                   checked_text, validation, fb_question, fb_called, fb_result,
                   log_threads, vote_history, pending, replaced_stats>>

\* A vote button is pressed (lines 283 and 297 pass 'upvote' and
\* 'downvote'), or cast_vote is called directly, as the tests call it; the
\* function takes any vote_type.
CastVote(plan_id, vote_type) ==
    /\ now < MaxOperations
    /\ now' = now + 1
    /\ \E r \in {cast_vote(development_plans, vote_history, plan_id, vote_type, now)} :
         /\ call' = [fn |-> "cast_vote", args |-> <<plan_id, vote_type>>,
                     done |-> TRUE,
                     result |-> [returned |-> r.returned, errors |-> r.errors]]
         /\ development_plans' = r.development_plans
         /\ vote_history' = r.vote_history
    /\ UNCHANGED <<env, client_cache, data, stats, api_usage_stats, queries, last,
                   checked_text, validation, fb_question, fb_called, fb_result,
                   log_threads, uploaded_files, uploads_dir, pending, replaced_stats>>

NextVoting ==
    \/ \E title \in {<<" ", "P", "a", "r", "k", " ">>, <<" ", " ", " ">>},
          files \in {<<[name |-> <<"p", "l", "a", "n", ".", "p", "d", "f">>, size |-> 1024 * 1024]>>,
                     <<[name |-> <<"p", "l", "a", "n", ".", "p", "d", "f">>, size |-> 1024 * 1024],
                       [name |-> <<"N", "o", "t", "e", "s", ".", "T", "X", "T">>, size |-> 2048]>>} :
           SubmitPlan(title, files)
    \/ \E plan_id \in PlanIds \cup {"plan1", "plan2", "nonexistent"},
          vote_type \in {"upvote", "downvote", "abstain"} :
           CastVote(plan_id, vote_type)

SpecVoting == InitVoting /\ [][NextVoting]_vars

(***************************************************************************)
(* Properties of create_ai_response, checked on the session (Spec).        *)
(***************************************************************************)
\* The logical time of the call recorded in `last`
last_time == queries - 1

\* What create_fallback_response gives for the question of the last call
responder_outcome == create_fallback_response(last.question, stats, data, last_time)

\* C1: for every question and every non-empty statistics record,
\* create_ai_response returns a non-empty string; it never raises and never
\* returns no value, whatever the API outcome is.
C1_AlwaysReturnsAnswer ==
    (last.called /\ ~not_stats(stats))
        => (last.result.tag = "str" /\ last.result.val # "")

\* C2, as stated: every call of create_ai_response makes total_requests grow
\* by exactly 1, on every path.
C2_CountedExactlyOnce ==
    [][queries' = queries + 1
         => api_usage_stats'.total_requests = api_usage_stats.total_requests + 1]_vars

\* C2, amended: a call makes total_requests grow by 1 when it called the API
\* or caught an exception in its try block, and leaves the counters alone on
\* the paths that return before (empty statistics, no client); never by more
\* than 1.
C2_CountedAtMostOnce ==
    [][queries' = queries + 1
         => /\ api_usage_stats'.total_requests
                 = api_usage_stats.total_requests
                   + (IF last'.api_calls > 0 \/ last'.recovery_calls > 0 THEN 1 ELSE 0)
            /\ (last'.api_calls = 0 /\ last'.recovery_calls = 0)
                 => api_usage_stats' = api_usage_stats]_vars

\* Two questions were asked without a client and the counters are untouched.
C2_Witness ==
    /\ queries = 2
    /\ last.client_obtained
    /\ last.fallback_calls = 1
    /\ last.api_calls = 0
    /\ api_usage_stats = InitialUsage

\* C3: when the API answers with a rate-limit error, the query waits 1s, 2s
\* and 4s, calling the API again after each wait, then gives up and falls
\* back, and logs exactly one failed request.
C3_BackoffThenFallback ==
    (last.called /\ last.api.kind = "exception"
       /\ classify_error(last.api.text) = "rate_limit")
        => /\ last.slept = <<1, 2, 4>>
           /\ last.api_calls = 4
           /\ last.fallback_calls = 1
           /\ Len(last.log_calls) = 1
           /\ ~last.log_calls[1].success

\* C4: when the API call raises, the answer is the answer of
\* create_fallback_response to the question, preceded by a notice that names
\* the error category and gives the temperature range and the mean.
C4_NoticeThenResponderAnswer ==
    (last.called /\ last.api.kind = "exception")
        => /\ last.fallback_calls = 1
           /\ last.result.tag = "str"
           /\ responder_outcome.tag = "str"
              => Len(last.result.val)
                   >= Len(create_error_recovery_response(
                              classify_error(last.api.text), last.question, stats))
                      + Len(responder_outcome.val)

\* C6: when the API returns text that validate_response_quality rejects, the
\* query logs exactly one request, as failed with error kind 'quality' and
\* fallback_used, and returns exactly what create_fallback_response gives for
\* the same question, stats and data.
C6_QualityFailureFallsBack ==
    (last.called /\ last.api.kind = "text"
       /\ ~validate_response_quality(last.api.text).is_valid)
        => /\ last.log_calls = <<LogCall(FALSE, "quality", TRUE)>>
           /\ last.fallback_calls = 1
           /\ last.result = responder_outcome
           /\ api_usage_stats.failed_requests >= 1
           /\ api_usage_stats.fallback_requests >= 1
           /\ api_usage_stats.error_types["quality"] >= 1
           /\ api_usage_stats.last_request_time = <<last_time>>

\* The API answered "I'm unable to help with that" and the responder's answer
\* was returned.
C6_Witness ==
    /\ last.called
    /\ last.api = ApiText(T_unable_help)
    /\ last.result.tag = "str"
    /\ last.result = responder_outcome

\* C7: when one of the four configuration values is missing, a query with
\* non-empty statistics makes no API call, returns what
\* create_fallback_response returns, and records no failed request.
C7_NotConfiguredFallsBack ==
    (last.called /\ ~not_stats(stats) /\ missing_vars(env) # {})
        => /\ last.api_calls = 0
           /\ last.fallback_calls = 1
           /\ last.result = responder_outcome
           /\ last.log_calls = <<>>
           /\ api_usage_stats.failed_requests = 0
           /\ client_cache = "None"

\* Exactly one configuration value is missing and the responder's answer was
\* returned.
C7_Witness ==
    /\ last.called
    /\ ~not_stats(stats)
    /\ Cardinality(missing_vars(env)) = 1
    /\ last.result.tag = "str"
    /\ last.result = responder_outcome

\* C8: a grid that is missing or has only NaN pixels gives empty statistics,
\* and with empty statistics create_ai_response returns the insufficient-data
\* message at once: it does not obtain the client, build the context, call
\* the API or call the responder.
C8_EmptyStatsShortCircuit ==
    /\ (~data.loaded \/ valid_values(data.pixels) = <<>>) => not_stats(stats)
    /\ (last.called /\ not_stats(stats))
        => /\ last.result = Str(InsufficientDataMessage)
           /\ ~last.client_obtained
           /\ last.context_calls = 0
           /\ last.api_calls = 0
           /\ last.fallback_calls = 0
           /\ last.log_calls = <<>>

\* A question was asked on the grid whose pixels are all NaN, with the API
\* configured.
C8_Witness ==
    /\ last.called
    /\ data = G_all_nan
    /\ missing_vars(env) = {}
    /\ last.result = Str(InsufficientDataMessage)

(***************************************************************************)
(* Properties of create_fallback_response, checked on direct calls         *)
(* (SpecResponder).                                                        *)
(***************************************************************************)
\* C5: create_fallback_response returns a string for every question and
\* every non-empty statistics record, also for a question with a temperature
\* keyword and no superlative keyword; it never raises and never returns no
\* value.
C5_ResponderReturnsString ==
    fb_called => fb_result.tag = "str"

\* C10: create_fallback_response answers with the first matching branch in
\* the order temperature-superlative, heat-island, statistics, area,
\* data-source, generic: a question with a heat-island keyword and no
\* superlative keyword gets the heat-island answer, and a question matching
\* no earlier branch gets the generic summary.
C10_BranchPriority ==
    LET question_lower == str_lower(fb_question)
        context_data == prepare_context_data(stats, data, queries)
        ci == climate_indicators_of(context_data)
    IN  (fb_called /\ context_data.tag = "dict")
            => /\ (any_in(heat_island_words, question_lower)
                     /\ ~any_in(superlative_words, question_lower))
                    => fb_result = heat_island_response(stats, data, ci)
               /\ ~any_in(temperature_words \cup heat_island_words \cup statistics_words
                            \cup area_words \cup data_source_words, question_lower)
                    => fb_result = Str(general_response(stats, ci))

(***************************************************************************)
(* Properties of validate_response_quality, checked on direct calls        *)
(* (SpecValidate).                                                         *)
(***************************************************************************)
\* C9: validate_response_quality rejects a text if and only if it is empty,
\* or has fewer than 10 characters after trimming, or contains
\* (case-insensitively) one of the five refusal phrases, or has fewer than 5
\* whitespace-separated words; a trimmed 10-character text of 5 words is
\* accepted, a 9-character text is rejected, and "Error" is rejected.
C9_RejectsIff ==
    validation.called
        => /\ ~validation.is_valid
                <=> \/ checked_text = <<>>
                    \/ checked_text = NoneStr
                    \/ Len(str_strip(checked_text)) < 10
                    \/ \E k \in 1..5 :
                           str_contains(str_lower(checked_text), error_indicators[k])
                    \/ split_count(checked_text) < 5
           /\ (Len(str_strip(checked_text)) = 10 /\ split_count(checked_text) >= 5
                 /\ ~any_in({error_indicators[k] : k \in 1..5}, str_lower(checked_text)))
                => validation.is_valid
           /\ Len(checked_text) = 9 => ~validation.is_valid
           /\ checked_text = T_Error => ~validation.is_valid

\* A text of 5 words that has 10 characters only after trimming was accepted.
C9_Witness ==
    /\ validation.called
    /\ validation.is_valid
    /\ Len(checked_text) > 10
    /\ Len(str_strip(checked_text)) = 10
    /\ split_count(checked_text) = 5

(***************************************************************************)
(* Further properties of create_ai_response, checked on the session        *)
(* (Spec).                                                                 *)
(***************************************************************************)
\* C11: when the API returns text that passes validation, the query logs
\* exactly one request, as successful and without fallback, and returns that
\* text between the header of the analysis mode and the footer that names the
\* mode; the responder and the error-recovery notice are not used.
C11_SuccessIsLoggedAndWrapped ==
    (last.called /\ last.api.kind = "text"
       /\ validate_response_quality(last.api.text).is_valid)
        => /\ last.log_calls = <<LogCall(TRUE, "", FALSE)>>
           /\ last.fallback_calls = 0
           /\ last.recovery_calls = 0
           /\ last.slept = <<>>
           /\ api_usage_stats.successful_requests >= 1
           /\ api_usage_stats.last_request_time = <<last_time>>
           /\ \E header \in {"**Technical Analysis**", "**Comprehensive Analysis**",
                             "**Simple Explanation**"} :
                /\ header = "**Technical Analysis**" <=> last.analysis_mode = "Technical"
                /\ header = "**Simple Explanation**" <=> last.analysis_mode = "Simple"
                /\ last.result
                     = Str(header \o "\n\n" \o to_string(last.api.text)
                           \o "\n\n---\n*Analysis based on Kilimani LST satellite data * Generated using Azure OpenAI * Mode: "
                           \o last.analysis_mode \o "*")

\* The API returned the valid text in Technical mode and the query succeeded.
C11_Witness ==
    /\ last.called
    /\ last.api = ApiText(T_valid)
    /\ last.analysis_mode = "Technical"
    /\ last.result.tag = "str"
    /\ api_usage_stats.successful_requests = 1

\* C12: every exception raised by the API call is caught and given exactly
\* one kind by the substrings of its lower-cased message (rate_limit,
\* authentication, timeout, network, otherwise unknown, in this order), and
\* the query is logged as one failed request with fallback_used true and that
\* kind counted once in error_types.
C12_ExceptionClassifiedAndLogged ==
    [][(queries' = queries + 1 /\ last'.api.kind = "exception")
         => LET m == str_lower(last'.api.text)
                kind == IF str_contains(m, <<"r", "a", "t", "e", " ", "l", "i", "m", "i", "t">>) \/ str_contains(m,
                    <<"q", "u", "o", "t", "a">>)
                        THEN "rate_limit"
                        ELSE IF str_contains(m,
                            <<"a", "u", "t", "h", "e", "n", "t", "i", "c", "a", "t", "i", "o", "n">>)
                                \/ str_contains(m,
                                    <<"u", "n", "a", "u", "t", "h", "o", "r", "i", "z", "e", "d">>)
                        THEN "authentication"
                        ELSE IF str_contains(m, <<"t", "i", "m", "e", "o", "u", "t">>) THEN "timeout"
                        ELSE IF str_contains(m, <<"n", "e", "t", "w", "o", "r", "k">>)
                                \/ str_contains(m,
                                    <<"c", "o", "n", "n", "e", "c", "t", "i", "o", "n">>)
                        THEN "network"
                        ELSE "unknown"
            IN  /\ last'.result.tag = "str"
                /\ last'.error_type = kind
                /\ last'.log_calls = <<LogCall(FALSE, kind, TRUE)>>
                /\ api_usage_stats'.total_requests = api_usage_stats.total_requests + 1
                /\ api_usage_stats'.failed_requests = api_usage_stats.failed_requests + 1
                /\ api_usage_stats'.fallback_requests
                     = api_usage_stats.fallback_requests + 1
                /\ api_usage_stats'.successful_requests
                     = api_usage_stats.successful_requests
                /\ api_usage_stats'.error_types
                     = [api_usage_stats.error_types EXCEPT ![kind] = @ + 1]]_vars

\* The API raised "Connection timeout" (two keywords): the query was logged
\* as one failed request of kind timeout.
C12_Witness ==
    /\ last.called
    /\ last.api = ApiException(
        <<"C", "o", "n", "n", "e", "c", "t", "i", "o", "n", " ", "t", "i", "m", "e", "o", "u", "t">>)
    /\ last.error_type = "timeout"
    /\ api_usage_stats.failed_requests = 1
    /\ api_usage_stats.error_types["timeout"] = 1

(***************************************************************************)
(* Property of concurrent log_api_request calls (SpecConcurrent).          *)
(***************************************************************************)
\* C13: when two queries update the same UsageStats concurrently, no update
\* is lost: after both log_api_request calls finish, total_requests has grown
\* by 2 and successful_requests + failed_requests has grown by 2.
C13_NoLostUpdate ==
    (\A i \in 1..NumThreads : thread_done(i))
        => /\ api_usage_stats.total_requests = NumThreads
           /\ api_usage_stats.successful_requests + api_usage_stats.failed_requests
                = NumThreads

\* C14: for fewer than 3 valid pixels calculate_skewness returns the
\* sentinel 0 and for fewer than 4 valid pixels calculate_kurtosis returns
\* the sentinel 3, whether or not the pixels are equal, and
\* prepare_context_data for such a grid does not end with an exception.
C14_SentinelsForFewPixels ==
    (call.fn = "prepare_context_data" /\ call.done) =>
        LET valid_data == valid_values(call.args[1].pixels)
            n == Len(valid_data)
        IN  /\ (1 <= n /\ n < 3) => calculate_skewness(valid_data) = Returned("0")
            /\ (1 <= n /\ n < 4) => calculate_kurtosis(valid_data) = Returned("3")
            /\ n < 4 => call.result.tag # "raise"

\* C15: for every grid with at least one valid pixel, compute_lst_statistics
\* gives hot_pixels + cold_pixels <= total_pixels, hot_pixels being the
\* number of valid pixels strictly above the 90th percentile and cold_pixels
\* the number strictly below the 10th, no pixel being both; both counts are
\* 1 for the ten values 20, 25, 30, 35, 40, 22, 28, 33, 38, 24.
C15_HotAndColdPixels ==
    (call.fn = "compute_lst_statistics" /\ call.done
        /\ valid_values(call.args[1].pixels) # <<>>) =>
        LET valid_data == valid_values(call.args[1].pixels)
            above == {i \in DOMAIN valid_data :
                         Scale * valid_data[i] > np_percentile(valid_data, 90)}
            below == {i \in DOMAIN valid_data :
                         Scale * valid_data[i] < np_percentile(valid_data, 10)}
        IN  /\ call.result.total_pixels = Len(valid_data)
            /\ call.result.hot_pixels = Cardinality(above)
            /\ call.result.cold_pixels = Cardinality(below)
            /\ above \cap below = {}
            /\ call.result.hot_pixels + call.result.cold_pixels
                   <= call.result.total_pixels
            /\ valid_data = <<20, 25, 30, 35, 40, 22, 28, 33, 38, 24>> =>
                   call.result.hot_pixels = 1 /\ call.result.cold_pixels = 1

\* compute_lst_statistics was called on the ten values and counted one hot
\* and one cold pixel
C15_Witness ==
    /\ call.fn = "compute_lst_statistics" /\ call.done
    /\ call.args[1] = G_ten
    /\ call.result.total_pixels = 10
    /\ call.result.hot_pixels = 1
    /\ call.result.cold_pixels = 1

\* C16: for every grid with at least one valid pixel,
\* min <= p10 <= p25 <= median <= p75 <= p90 <= max, each percentile being
\* the linear interpolation between the two closest ranks of the valid
\* (non-NaN) pixels: 100 * p(q) = (100 - rem) * x[lo] + rem * x[lo + 1] for
\* (n - 1) * q = 100 * lo + rem, x[k] being the valid value of rank k from 0.
C16_PercentilesOrderedAndInterpolated ==
    (call.done /\ call.fn \in {"compute_lst_statistics", "prepare_context_data"}
        /\ valid_values(call.args[1].pixels) # <<>>) =>
        LET valid_data == valid_values(call.args[1].pixels)
            n == Len(valid_data)
            below(v) == Cardinality({i \in 1..n : valid_data[i] < v})
            upto(v) == Cardinality({i \in 1..n : valid_data[i] <= v})
            rank(k) == CHOOSE v \in {valid_data[i] : i \in 1..n} :
                           below(v) <= k /\ k < upto(v)
            interpolated(q) ==
                LET lo == ((n - 1) * q) \div 100
                    rem == ((n - 1) * q) % 100
                IN  (Scale * ((100 - rem) * rank(lo)
                        + rem * rank(IF lo + 1 < n THEN lo + 1 ELSE lo))) \div 100
            s == compute_lst_statistics(call.args[1])
        IN  /\ \A q \in {10, 25, 50, 75, 90} :
                   np_percentile(valid_data, q) = interpolated(q)
            /\ s.min_temp = Scale * rank(0)
            /\ s.max_temp = Scale * rank(n - 1)
            /\ s.percentile_25 = interpolated(25)
            /\ s.median_temp = interpolated(50)
            /\ s.percentile_75 = interpolated(75)
            /\ s.min_temp <= interpolated(10)
            /\ interpolated(10) <= s.percentile_25
            /\ s.percentile_25 <= s.median_temp
            /\ s.median_temp <= s.percentile_75
            /\ s.percentile_75 <= interpolated(90)
            /\ interpolated(90) <= s.max_temp
            /\ call.fn = "compute_lst_statistics" => call.result = s
            /\ (call.fn = "prepare_context_data" /\ call.result.tag = "dict") =>
                   /\ call.result.statistics.percentile_10
                          = fmt_2f(interpolated(10), Scale) \o "°C"
                   /\ call.result.statistics.percentile_90
                          = fmt_2f(interpolated(90), Scale) \o "°C"

\* The statistics of a grid with a NaN pixel were computed, and its quartiles
\* lie strictly between the pixels
C16_Witness ==
    /\ call.fn = "compute_lst_statistics" /\ call.done
    /\ \E i \in DOMAIN call.args[1].pixels : isnan(call.args[1].pixels[i])
    /\ valid_values(call.args[1].pixels) # <<>>
    /\ call.result.min_temp < call.result.percentile_25
    /\ call.result.percentile_25 < call.result.median_temp
    /\ call.result.median_temp < call.result.percentile_75
    /\ call.result.percentile_75 < call.result.max_temp

\* C17: assess_environmental_risk equals the reference: 3, 2 or 1 factors
\* for max_temp above 40, 35 or 30 degrees, plus 2 or 1 for std_temp above 5
\* or 3, plus 2 or 1 for temp_range above 15 or 10; High Risk from 5
\* factors, Moderate Risk from 3, Low Risk from 1, Minimal Risk for 0.
C17_EnvironmentalRiskReference ==
    (call.fn = "assess_environmental_risk" /\ call.done) =>
        LET s == call.args[1]
            from_max == CASE s.max_temp > 40 * Scale -> 3
                          [] s.max_temp <= 40 * Scale /\ s.max_temp > 35 * Scale -> 2
                          [] s.max_temp <= 35 * Scale /\ s.max_temp > 30 * Scale -> 1
                          [] s.max_temp <= 30 * Scale -> 0
            \* std_temp is sqrt(rad)/den: above k when rad > (k * den)^2
            std_above(k) == s.std_temp.rad > (k * s.std_temp.den) * (k * s.std_temp.den)
            from_std == CASE std_above(5) -> 2
                          [] ~std_above(5) /\ std_above(3) -> 1
                          [] ~std_above(3) -> 0
            from_range == CASE s.temp_range > 15 * Scale -> 2
                            [] s.temp_range <= 15 * Scale /\ s.temp_range > 10 * Scale -> 1
                            [] s.temp_range <= 10 * Scale -> 0
            factors == from_max + from_std + from_range
        IN  /\ factors \in 0..7
            /\ call.result = CASE factors >= 5 -> "High Risk"
                               [] factors \in {3, 4} -> "Moderate Risk"
                               [] factors \in {1, 2} -> "Low Risk"
                               [] factors = 0 -> "Minimal Risk"

\* assess_environmental_risk gave High Risk for exactly 5 factors: max_temp
\* 40.5 (3), std_temp exactly 5 (1) and temp_range 10.5 (1)
C17_Witness ==
    /\ call.fn = "assess_environmental_risk" /\ call.done
    /\ call.args[1].max_temp = 81 * (Scale \div 2)
    /\ call.args[1].std_temp = [rad |-> 100, den |-> 2]
    /\ call.args[1].temp_range = 21 * (Scale \div 2)
    /\ call.result = "High Risk"

\* C18: calculate_thermal_comfort gives every mean temperature exactly one
\* of four labels: Optimal Comfort on [18,24], Acceptable Comfort on [15,18)
\* and (24,27], Slight Discomfort on [12,15) and (27,30], Significant
\* Discomfort below 12 and above 30; the intervals cover every mean without
\* overlap and "Unknown" is never returned.
C18_ThermalComfortIntervals ==
    (call.fn = "calculate_thermal_comfort" /\ call.done) =>
        LET num == call.args[1].num
            den == call.args[1].den
            within(lo, hi) == lo * den <= num /\ num <= hi * den
            from_to(lo, hi) == lo * den <= num /\ num < hi * den
            over_to(lo, hi) == lo * den < num /\ num <= hi * den
            one(b) == IF b THEN 1 ELSE 0
            labels ==
                (IF within(18, 24) THEN {"Optimal Comfort"} ELSE {})
                \cup (IF from_to(15, 18) \/ over_to(24, 27)
                      THEN {"Acceptable Comfort"} ELSE {})
                \cup (IF from_to(12, 15) \/ over_to(27, 30)
                      THEN {"Slight Discomfort"} ELSE {})
                \cup (IF num < 12 * den \/ num > 30 * den
                      THEN {"Significant Discomfort"} ELSE {})
        IN  /\ labels = {call.result}
            /\ one(within(18, 24)) + one(from_to(15, 18)) + one(over_to(24, 27))
                 + one(from_to(12, 15)) + one(over_to(27, 30))
                 + one(num < 12 * den) + one(num > 30 * den) = 1
            /\ call.result # "Unknown"

\* calculate_thermal_comfort gave Optimal Comfort for a mean of exactly 24
C18_Witness ==
    /\ call.fn = "calculate_thermal_comfort" /\ call.done
    /\ call.args[1] = [num |-> 240, den |-> 10]
    /\ call.result = "Optimal Comfort"

\* C19: create_fallback_response is deterministic: the answer it gives in a
\* query equals the answer to the same question, stats and data at every
\* other time of call, and equals the answer it gave in the query before
\* when question, stats and data are the same, although the time, the
\* UsageStats and the number of earlier questions differ.  (The answer of a
\* query is the responder's alone when the query called it once and added
\* no error notice.)
C19_FallbackDeterministic ==
    [][LET answered_by_fallback(r) ==
               r.called /\ r.fallback_calls = 1 /\ r.recovery_calls = 0
       IN
       (answered_by_fallback(last') /\ queries' # queries) =>
          /\ \A t \in 0..MaxQueries :
                 last'.result = create_fallback_response(last'.question, stats', data', t)
          /\ (answered_by_fallback(last) /\ last.question = last'.question
                  /\ stats' = stats /\ data' = data)
                 => last'.result = last.result]_vars

\* The last query of a session was answered by the responder with a text
\* that uses the climate indicators, UsageStats having counted this request
\* and an earlier one
C19_Witness ==
    /\ last.called /\ last.fallback_calls = 1 /\ last.recovery_calls = 0
    /\ queries = MaxQueries
    /\ api_usage_stats.total_requests >= 2
    /\ last.result.tag = "str"
    /\ climate_indicators_of(prepare_context_data(stats, data, last_time)).tag = "dict"

\* C20: handle_api_rate_limiting(retry_count, max_retries) refuses the retry
\* without sleeping when retry_count >= max_retries; otherwise it sleeps
\* once, for exactly 2^retry_count seconds, and then allows the retry.
C20_ExponentialBackoff ==
    (call.fn = "handle_api_rate_limiting" /\ call.done) =>
        LET retry_count == call.args[1]
            max_retries == call.args[2]
        IN  /\ retry_count >= max_retries =>
                   /\ ~call.result.can_retry
                   /\ call.result.slept = <<>>
            /\ retry_count < max_retries =>
                   /\ call.result.can_retry
                   /\ call.result.slept = <<2 ^ retry_count>>
                   /\ call.result.message
                          = "Retrying after " \o ToString(2 ^ retry_count) \o " second delay"

\* The third retry of four was allowed after a sleep of 8 seconds
C20_Witness ==
    /\ call.fn = "handle_api_rate_limiting" /\ call.done
    /\ call.args = <<3, 4>>
    /\ call.result.can_retry
    /\ call.result.slept = <<8>>

(***************************************************************************)
(* Properties of the Community Voting page (SpecVoting).                   *)
(***************************************************************************)
\* C21: cast_vote(plan_id, 'upvote') on an existing plan returns True and
\* raises the upvotes of that plan (the first with this id) by exactly 1,
\* leaving its downvotes and every other plan as they were;
\* cast_vote(plan_id, 'downvote') does the same for downvotes.
C21_VoteCountsOnePlan ==
    [][(/\ call'.fn = "cast_vote"
        /\ call'.args[2] \in {"upvote", "downvote"}
        /\ \E i \in 1..Len(development_plans) :
               /\ development_plans[i].id = call'.args[1]
               /\ {"upvotes", "downvotes"} \subseteq DOMAIN development_plans[i])
       => LET plan_id == call'.args[1]
              i == CHOOSE k \in 1..Len(development_plans) :
                       /\ development_plans[k].id = plan_id
                       /\ \A j \in 1..(k - 1) : development_plans[j].id # plan_id
              up == IF call'.args[2] = "upvote" THEN 1 ELSE 0
          IN  /\ call'.result.returned
              /\ Len(development_plans') = Len(development_plans)
              /\ development_plans'[i].upvotes = development_plans[i].upvotes + up
              /\ development_plans'[i].downvotes
                     = development_plans[i].downvotes + (1 - up)
              /\ \A j \in 1..Len(development_plans) :
                     j # i => development_plans'[j] = development_plans[j]]_vars

\* cast_vote('plan1', 'upvote') on the plans of TestVotingSystem returned
\* True and made the votes of plan1 6 and 2, with plan2 as before
C21_Witness ==
    /\ call.fn = "cast_vote" /\ call.args = <<"plan1", "upvote">>
    /\ call.result.returned
    /\ Len(development_plans) = 2
    /\ development_plans[1].upvotes = 6
    /\ development_plans[1].downvotes = 2
    /\ development_plans[2] = test_plans[2]

\* C22: cast_vote returns False and leaves the plans and the vote history
\* as they were when no stored plan has the given id (whatever the vote),
\* and also when an upvote or a downvote, the votes the page casts, finds
\* that the matching plan lacks the vote fields; in the second case the
\* error is reported once.
C22_FailedVoteChangesNothing ==
    [][LET plan_id == call'.args[1]
           matching == {i \in 1..Len(development_plans) :
                           development_plans[i].id = plan_id}
           first == CHOOSE i \in matching : \A j \in matching : i <= j
           lacks_votes == /\ matching # {}
                          /\ DOMAIN development_plans[first]
                                 \cap {"upvotes", "downvotes"} = {}
                          /\ call'.args[2] \in {"upvote", "downvote"}
       IN  (call'.fn = "cast_vote" /\ (matching = {} \/ lacks_votes))
           => /\ ~call'.result.returned
              /\ call'.result.errors = (IF lacks_votes THEN 1 ELSE 0)
              /\ development_plans' = development_plans
              /\ vote_history' = vote_history]_vars

\* After a vote for an id no plan has, an upvote for the plan of
\* test_cast_vote_exception_handling, which has no vote fields, returned
\* False with one error reported, and the plan and the history are as before
C22_Witness ==
    /\ call.fn = "cast_vote" /\ call.done
    /\ call.args = <<"plan1", "upvote">>
    /\ ~call.result.returned
    /\ call.result.errors = 1
    /\ development_plans = <<[id |-> "plan1"]>>
    /\ vote_history = <<>>
    /\ now = 2

(***************************************************************************)
(* Properties of validate_upload_form and filter_and_sort_plans            *)
(* (SpecFunctions).                                                        *)
(***************************************************************************)
\* C23: validate_upload_form returns no error if and only if the title and
\* the description are non-blank after trimming, at least one file is given,
\* and every file is at most 10 MB and has an extension (the part of its
\* name after the last dot, in either case) among pdf, doc, docx, txt; each
\* violated rule adds an error of its own, so that a blank title with a
\* blank description gives at least 2 errors.
C23_ValidFormIffNoErrors ==
    (call.fn = "validate_upload_form" /\ call.done) =>
        LET title == call.args[1]
            description == call.args[2]
            files == call.args[3]
            blank(s) == \A i \in 1..Len(s) : s[i] \in Whitespace
            too_large(f) == f.size > 10 * 1024 * 1024
            allowed_type(f) ==
                \E i \in 1..Len(f.name) :
                    /\ f.name[i] = "."
                    /\ \A j \in (i + 1)..Len(f.name) : f.name[j] # "."
                    /\ str_lower(SubSeq(f.name, i + 1, Len(f.name)))
                           \in {<<"p", "d", "f">>, <<"d", "o", "c">>, <<"d", "o", "c", "x">>,
                               <<"t", "x", "t">>}
            one(b) == IF b THEN 1 ELSE 0
            violated == one(blank(title)) + one(blank(description)) + one(files = <<>>)
                        + Cardinality({i \in 1..Len(files) : too_large(files[i])})
                        + Cardinality({i \in 1..Len(files) : ~allowed_type(files[i])})
        IN  /\ call.result = <<>> <=> violated = 0
            /\ Len(call.result) = violated
            /\ (blank(title) /\ blank(description)) => Len(call.result) >= 2

\* C24: filter_and_sort_plans returns exactly the plans of the input whose
\* title or description contains the trimmed search term in any case (all
\* plans when the term is blank) and whose plan_type equals the type filter
\* (all plans when the filter is 'All'), each as often as the input has it;
\* they are ordered newest upload first for 'Upload Date', by upvotes +
\* downvotes descending for 'Most Votes' and by lower-cased title ascending
\* for 'Title'; the input list is as it was.
C24_FilteredAndOrdered ==
    (call.fn = "filter_and_sort_plans" /\ call.done) =>
        LET plans == call.args[1]
            term == str_lower(str_strip(call.args[2]))
            type == call.args[3]
            sort_by == call.args[4]
            result == call.result.returned
            wanted(p) ==
                /\ \/ term = <<>>
                   \/ str_contains(str_lower(p.title), term)
                   \/ str_contains(str_lower(p.description), term)
                /\ \/ type = "All"
                   \/ ("plan_type" \in DOMAIN p /\ p.plan_type = type)
            count(s, p) == Cardinality({i \in 1..Len(s) : s[i] = p})
            letters == <<" ", "0", "1", "2", "3", "4", "5", "6", "7", "8", "9",
                         "a", "b", "c", "d", "e", "f", "g", "h", "i", "j", "k",
                         "l", "m", "n", "o", "p", "q", "r", "s", "t", "u", "v",
                         "w", "x", "y", "z", "é">>
            rank(c) == CHOOSE k \in 1..Len(letters) : letters[k] = c
            \* a comes after b in the dictionary
            after(a, b) ==
                \E k \in 1..Len(a) :
                    /\ \A j \in 1..(k - 1) : j <= Len(b) /\ a[j] = b[j]
                    /\ (k > Len(b) \/ rank(a[k]) > rank(b[k]))
            in_order(p, q) ==
                CASE sort_by = "Upload Date" -> p.upload_date >= q.upload_date
                  [] sort_by = "Most Votes" ->
                        p.upvotes + p.downvotes >= q.upvotes + q.downvotes
                  [] sort_by = "Title" ->
                        ~after(str_lower(p.title), str_lower(q.title))
        IN  /\ \A i \in 1..Len(result) : count(plans, result[i]) > 0
            /\ \A i \in 1..Len(plans) :
                   count(result, plans[i]) =
                       (IF wanted(plans[i]) THEN count(plans, plans[i]) ELSE 0)
            /\ \A i \in 1..(Len(result) - 1) : in_order(result[i], result[i + 1])
            /\ call.result.plans = plans

\* The search for 'residential' among the plans of TestFilteringAndSorting,
\* sorted by upload date, returned plan3 (matched by its description) and
\* then plan1
C24_Witness ==
    /\ call.fn = "filter_and_sort_plans" /\ call.done
    /\ call.args = <<filter_test_plans,
        <<"r", "e", "s", "i", "d", "e", "n", "t", "i", "a", "l">>, "All", "Upload Date">>
    /\ call.result.returned = <<filter_test_plans[3], filter_test_plans[1]>>
    /\ call.result.plans = filter_test_plans

(***************************************************************************)
(* Properties of the uploads (SpecVoting).                                 *)
(***************************************************************************)
\* C25: a plan upload is all-or-nothing: when saving one file of a plan
\* fails, save_plan_metadata returns None (process_plan_upload returns
\* False), development_plans and uploaded_files are left unchanged and every
\* file already saved for that plan is removed; a plan is added to
\* development_plans only after all its files were saved.
C25_AllOrNothing ==
    [][LET files == call'.args[2]
           plan_id == call'.args[3]
           fails_at == call'.args[4]
           path(i) == saved_file(files[i], plan_id).file_path
       IN  /\ (call'.fn = "process_plan_upload" /\ fails_at # 0)
                  => /\ ~call'.result.success
                     /\ call'.result.plan_data = <<>>
                     /\ development_plans' = development_plans
                     /\ uploaded_files' = uploaded_files
                     /\ \A i \in 1..(fails_at - 1) : path(i) \notin uploads_dir'
           /\ Len(development_plans') > Len(development_plans)
                  => /\ call'.fn = "process_plan_upload" /\ fails_at = 0
                     /\ \A i \in 1..Len(files) : path(i) \in uploads_dir']_vars

\* C25 as the code has it: the files already saved are removed as far as
\* unlink succeeds; a file whose removal raises stays in the uploads
\* directory (the code shows a warning and goes on), and a file whose
\* removal does not raise is gone.
C25_AllOrNothingExceptStuckFiles ==
    [][LET files == call'.args[2]
           plan_id == call'.args[3]
           fails_at == call'.args[4]
           unlink_raises == call'.args[5]
           path(i) == saved_file(files[i], plan_id).file_path
       IN  /\ (call'.fn = "process_plan_upload" /\ fails_at # 0)
                  => /\ ~call'.result.success
                     /\ call'.result.plan_data = <<>>
                     /\ development_plans' = development_plans
                     /\ uploaded_files' = uploaded_files
                     /\ \A i \in 1..(fails_at - 1) :
                            path(i) \in uploads_dir' <=> path(i) \in unlink_raises
           /\ Len(development_plans') > Len(development_plans)
                  => /\ call'.fn = "process_plan_upload" /\ fails_at = 0
                     /\ \A i \in 1..Len(files) : path(i) \in uploads_dir']_vars

\* After one plan was stored, the upload of plan.pdf and Notes.TXT failed at
\* the second file: plan.pdf, saved before, is gone again and the stored
\* plan is still the only one
C25_Witness ==
    /\ call.fn = "process_plan_upload" /\ call.args[4] = 2 /\ call.args[5] = {}
    /\ ~call.result.success
    /\ Len(development_plans) = 1
    /\ DOMAIN uploaded_files = {development_plans[1].id}
    /\ call.args[3] # development_plans[1].id
    /\ saved_file(call.args[2][1], call.args[3]).file_path \notin uploads_dir
    /\ uploads_dir # {}

(***************************************************************************)
(* Properties of the usage counters.                                       *)
(***************************************************************************)
\* C26: after any sequence of log_api_request calls that starts from the
\* counters monitor_api_usage creates, total_requests = successful_requests
\* + failed_requests (and total_requests is the number of calls).
C26_TotalIsSuccessfulPlusFailed ==
    /\ api_usage_stats.total_requests =
           api_usage_stats.successful_requests + api_usage_stats.failed_requests
    /\ (call.fn = "log_api_request" /\ call.done) =>
           /\ api_usage_stats.total_requests = Len(call.args[1])
           /\ call.result = api_usage_stats

\* A failure without an error kind and a success were logged: 2 requests,
\* 1 successful, 1 failed
C26_Witness ==
    /\ call.fn = "log_api_request" /\ call.done
    /\ call.args[1] = <<LogCall(FALSE, "", TRUE), LogCall(TRUE, "", FALSE)>>
    /\ api_usage_stats.total_requests = 2
    /\ api_usage_stats.successful_requests = 1
    /\ api_usage_stats.failed_requests = 1

\* C27: after any sequence of create_ai_response calls, fallback_requests =
\* failed_requests and the counts in error_types add up to failed_requests:
\* every request logged as failed is logged with fallback_used and with an
\* error kind, and no successful request is logged with fallback_used.
C27_FailedIsFallbackIsErrorKinds ==
    LET u == monitor_api_usage(api_usage_stats)
        kinds == u.error_types
    IN  /\ u.fallback_requests = u.failed_requests
        /\ kinds["quality"] + kinds["rate_limit"] + kinds["authentication"]
               + kinds["timeout"] + kinds["network"] + kinds["unknown"]
               = u.failed_requests
        /\ \A i \in 1..Len(last.log_calls) :
               LET c == last.log_calls[i]
               IN  IF c.success THEN ~c.fallback_used
                   ELSE c.fallback_used /\ c.error_type \in ErrorKinds

\* A quality failure and a failure by an exception were logged: 2 requests,
\* both failed, both with fallback, one count for each of the two kinds
C27_Witness ==
    /\ queries = 2
    /\ api_usage_stats.total_requests = 2
    /\ api_usage_stats.successful_requests = 0
    /\ api_usage_stats.failed_requests = 2
    /\ api_usage_stats.fallback_requests = 2
    /\ api_usage_stats.error_types["quality"] = 1
    /\ \E k \in ErrorKinds \ {"quality"} : api_usage_stats.error_types[k] = 1

\* C28: one call of create_ai_response calls the API at most once and calls
\* log_api_request at most once, on every path, the rate-limit path
\* included; so total_requests is never more than the number of queries, and
\* no query is logged both as successful and as failed.
C28_OneApiCallOneLogPerQuery ==
    /\ last.api_calls <= 1
    /\ Len(last.log_calls) <= 1
    /\ monitor_api_usage(api_usage_stats).total_requests <= queries
    /\ ~(\E i, j \in 1..Len(last.log_calls) :
             last.log_calls[i].success /\ ~last.log_calls[j].success)

\* The second query hit the rate limit after a first one that succeeded: the
\* API was called once, the handler slept 1 second, no second attempt was
\* made, and the query was logged once, as failed
C28_Witness ==
    /\ queries = 2
    /\ last.error_type = "rate_limit"
    /\ last.api_calls = 1
    /\ last.slept = <<1>>
    /\ last.log_calls = <<LogCall(FALSE, "rate_limit", TRUE)>>
    /\ api_usage_stats.total_requests = 2
    /\ api_usage_stats.successful_requests = 1
    /\ api_usage_stats.failed_requests = 1

(***************************************************************************)
(* Properties of the stored plans and their votes (SpecVoting).            *)
(***************************************************************************)
\* C29: after any sequence of cast_vote calls with vote_type 'upvote' or
\* 'downvote' on plans created by save_plan_metadata, for every plan
\* upvotes + downvotes is the number of vote_history entries of that plan,
\* its upvote entries are as many as its upvotes and its downvote entries as
\* many as its downvotes; no count of a plan ever decreases.
C29_VotesMatchHistory ==
    [][LET plans == development_plans'
           made_by_uploads == \A i \in 1..Len(plans) : plans[i].id \in PlanIds
           entries(plan_id) == IF plan_id \in DOMAIN vote_history'
                               THEN vote_history'[plan_id] ELSE <<>>
           votes_only == \A plan_id \in DOMAIN vote_history' :
                             \A k \in 1..Len(vote_history'[plan_id]) :
                                 vote_history'[plan_id][k].vote_type
                                     \in {"upvote", "downvote"}
           number(plan_id, vote_type) ==
               Cardinality({k \in 1..Len(entries(plan_id)) :
                               entries(plan_id)[k].vote_type = vote_type})
       IN  (made_by_uploads /\ votes_only) =>
               /\ \A i \in 1..Len(plans) :
                      /\ plans[i].upvotes + plans[i].downvotes
                             = Len(entries(plans[i].id))
                      /\ plans[i].upvotes = number(plans[i].id, "upvote")
                      /\ plans[i].downvotes = number(plans[i].id, "downvote")
               /\ \A i \in 1..Len(development_plans) :
                      /\ plans[i].upvotes >= development_plans[i].upvotes
                      /\ plans[i].downvotes >= development_plans[i].downvotes]_vars

\* C30: after any sequence of uploads, successful or failed, in a session
\* that started without plans, the ids of the plans in development_plans are
\* pairwise distinct, the keys of uploaded_files are exactly those ids, and
\* uploaded_files[id] is the 'files' list of the plan with that id.
C30_PlanIdsDistinct ==
    LET plans == development_plans
    IN  (\A i \in 1..Len(plans) : plans[i].id \in PlanIds) =>
            /\ \A i, j \in 1..Len(plans) : plans[i].id = plans[j].id => i = j
            /\ DOMAIN uploaded_files = {plans[i].id : i \in 1..Len(plans)}
            /\ \A i \in 1..Len(plans) : uploaded_files[plans[i].id] = plans[i].files

====
